---- MODULE Spec2Model ----
(***************************************************************************)
(* Authentication-code lifecycle and email dispatch of the goalkeeper      *)
(* email service: the auth_codes table, AuthCodeService, the validate-code *)
(* endpoint, EmailService and the retrying AzureClient.                    *)
(*                                                                         *)
(* Time is counted in minutes.  Every repository call is one atomic step   *)
(* on the table; a service call made of several repository calls is        *)
(* several steps, so concurrent requests interleave between the calls.     *)
(***************************************************************************)
EXTENDS Integers, Sequences, FiniteSets, TLC

(* ------------------------------ bounds -------------------------------- *)
\* the clock is read MaxTicks times after the start, once per expiration period
MaxTicks == 2
\* number of codes generate_code can issue in one behaviour
MaxCodes == 1
\* number of rows the sweeps are run on
MaxRows == 2
\* number of retention periods (days) the sweeps are watched for
MaxDays == 2

(* ------------------------- program constants -------------------------- *)
ExpirationMinutes == 5
MaxRetries == 3
RetryDelay == 1
UsedRetentionHours == 24

\* used_at of a row that was never used (None)
NoTime == -1
\* the empty string given as a code
EmptyCode == 0
\* the length of a generated code
CodeLength == 32
\* the text "placeholder" in the code field of the AuthCode generate_code builds
Placeholder == -1
\* None given where a string is expected
NullArg == -2

EMAIL_CONFIRMATION == "email_confirmation"
PASSWORD_RESET == "password_reset"
AuthCodeType == {EMAIL_CONFIRMATION, PASSWORD_RESET}

None == "None"

\* the result None of a lookup that returns Optional[AuthCode]
NoAuthCode ==
    [id |-> 0, code |-> [plain |-> EmptyCode, salt |-> 0], user_id |-> "",
     type |-> None, created_at |-> 0, expires_at |-> 0, is_used |-> FALSE,
     used_at |-> -1]

Requests == {"r1", "r2"}
Dispatchers == {"d1"}

\* user ids a caller can pass: plain, padded with whitespace, blank, empty
UserInputs == {"u1", " u2 ", " ", ""}

\* str.strip() on the user ids above
strip(s) ==
    CASE s = " u2 " -> "u2"
      [] s = " "    -> ""
      [] OTHER      -> s

\* the plaintexts generate can return, and the codes a caller can submit
Plaintexts == 1..MaxCodes
CodeInputs == Plaintexts \cup {EmptyCode}

VARIABLES
    now,      \* datetime.now(timezone.utc), in minutes
    table,    \* the auth_codes table: id -> row
    issued,   \* number of codes generated so far (ids and plaintexts are fresh)
    req,      \* the validate / invalidate requests in flight
    disp      \* the send_confirmation_email / send_password_reset_email calls

vars == <<now, table, issued, req, disp>>

(* ------------------------- AuthCode (the row) ------------------------- *)

\* bcrypt.hashpw(code, gensalt()): a salted one-way digest, never the plaintext
_hash_code(code, salt) == [plain |-> code, salt |-> salt]

\* a string that is not a bcrypt digest, as it stands in a code field: the
\* text itself, under no salt
Raw(text) == [plain |-> text, salt |-> 0]

\* bcrypt.checkpw(plain_code, hashed_code) inside try / except: False when
\* an argument is None or hashed_code is not a digest (checkpw raises), else
\* whether hashed_code is a digest of plain_code
BadVerifyAcceptsRaw(plain_code, hashed_code) == hashed_code.plain = plain_code
_verify_code(plain_code, hashed_code) ==
    IF plain_code = NullArg \/ hashed_code.salt = 0 THEN FALSE
    ELSE hashed_code.plain = plain_code

\* AuthCode.is_expired: now > expires_at
BadExpiredInverted(row, clock) == clock < row.expires_at
BadExpiredAtBoundary(row, clock) == clock >= row.expires_at
is_expired(row, clock) == clock > row.expires_at

\* AuthCode.is_valid: not is_used and not is_expired
is_valid(row, clock) == ~row.is_used /\ ~is_expired(row, clock)

(* --------------------------- AuthCodeRepository ----------------------- *)

\* get_auth_code_by_code: the unused rows of the type, first hash match
BadMatchingIgnoresType(tbl, plain_code, code_type) ==
    {i \in DOMAIN tbl : /\ tbl[i].is_used = FALSE
                        /\ _verify_code(plain_code, tbl[i].code)}

MatchingRows(tbl, plain_code, code_type) ==
    {i \in DOMAIN tbl : /\ tbl[i].type = code_type
                        /\ tbl[i].is_used = FALSE
                        /\ _verify_code(plain_code, tbl[i].code)}

get_auth_code_by_code(tbl, plain_code, code_type) ==
    LET m == MatchingRows(tbl, plain_code, code_type)
    IN  IF m = {} THEN NoAuthCode ELSE tbl[CHOOSE i \in m : \A j \in m : i <= j]

\* get_auth_code_by_id
get_auth_code_by_id(tbl, code_id) ==
    IF code_id \in DOMAIN tbl THEN tbl[code_id] ELSE NoAuthCode

\* mark_code_as_used: UPDATE ... SET is_used = true, used_at = now WHERE id = code_id
BadMarkToggles(tbl, code_id, clock) ==
    [i \in DOMAIN tbl |->
        IF i = code_id
        THEN [tbl[i] EXCEPT !.is_used = ~tbl[i].is_used, !.used_at = clock]
        ELSE tbl[i]]

BadMarkOnlyStamps(tbl, code_id, clock) ==
    [i \in DOMAIN tbl |->
        IF i = code_id THEN [tbl[i] EXCEPT !.used_at = clock] ELSE tbl[i]]

BadMarkRestampsCreated(tbl, code_id, clock) ==
    [i \in DOMAIN tbl |->
        IF i = code_id
        THEN [tbl[i] EXCEPT !.is_used = TRUE, !.used_at = clock,
                            !.created_at = clock]
        ELSE tbl[i]]

BadMarkAllRows(tbl, code_id, clock) ==
    [i \in DOMAIN tbl |->
        IF code_id \in DOMAIN tbl
        THEN [tbl[i] EXCEPT !.is_used = TRUE, !.used_at = clock]
        ELSE tbl[i]]

mark_code_as_used(tbl, code_id, clock) ==
    [i \in DOMAIN tbl |->
        IF i = code_id
        THEN [tbl[i] EXCEPT !.is_used = TRUE, !.used_at = clock]
        ELSE tbl[i]]

\* the rows delete_expired_codes removes: expires_at < now
BadExpiredIdsSkipsUsed(tbl, clock) ==
    {i \in DOMAIN tbl : tbl[i].expires_at < clock /\ ~tbl[i].is_used}
BadExpiredIdsAtBoundary(tbl, clock) ==
    {i \in DOMAIN tbl : tbl[i].expires_at <= clock}
ExpiredIds(tbl, clock) == {i \in DOMAIN tbl : tbl[i].expires_at < clock}

delete_expired_codes(tbl, clock) ==
    [i \in DOMAIN tbl \ ExpiredIds(tbl, clock) |-> tbl[i]]

\* the rows delete_used_codes_older_than_hours removes: is_used = true and
\* used_at < now - hours
BadOldUsedIgnoresAge(tbl, clock, hours) == {i \in DOMAIN tbl : tbl[i].is_used}
OldUsedIds(tbl, clock, hours) ==
    {i \in DOMAIN tbl : tbl[i].is_used /\ tbl[i].used_at < clock - hours * 60}

delete_used_codes_older_than_hours(tbl, clock, hours) ==
    [i \in DOMAIN tbl \ OldUsedIds(tbl, clock, hours) |-> tbl[i]]

\* len(result.data) of a delete: the number of rows it removed
deleted_count(before, after) == Cardinality(DOMAIN before \ DOMAIN after)

(* ----------------------------- AuthCodeService ------------------------ *)

\* validate_code: the matching row, or None when there is none, it is used
\* or it is expired
validate_code(tbl, clock, code, code_type) ==
    IF code = EmptyCode THEN NoAuthCode
    ELSE LET auth_code == get_auth_code_by_code(tbl, code, code_type)
         IN  IF auth_code = NoAuthCode THEN NoAuthCode
             ELSE IF auth_code.is_used THEN NoAuthCode
             ELSE IF is_expired(auth_code, clock) THEN NoAuthCode
             ELSE auth_code

\* the row generate_code builds and store_auth_code inserts: a new id, the
\* hash of the plaintext under a new salt, the stripped user id, the expiry
BadRowKeepsPlaceholder(code_id, plain_code, user_id, code_type, clock) ==
    [id |-> code_id, code |-> _hash_code(-1, code_id),
     user_id |-> strip(user_id), type |-> code_type, created_at |-> clock,
     expires_at |-> clock + ExpirationMinutes, is_used |-> FALSE,
     used_at |-> NoTime]

\* _calculate_expiration_time: a reading of the clock plus the lifetime
BadExpirationIsReading(clock) == clock
_calculate_expiration_time(clock) == clock + ExpirationMinutes

\* the AuthCode validator of expires_at: the constructor raises when this holds
AuthCodeRejected(created_at, expires_at) == expires_at <= created_at

\* store_auth_code: the dictionary of the AuthCode generate_code built, its
\* code field replaced by the bcrypt digest of the plaintext
BadRowStoresPlaintext(code_id, plain_code, user_id, code_type, created, expires) ==
    [id |-> code_id, code |-> Raw(plain_code),
     user_id |-> strip(user_id), type |-> code_type, created_at |-> created,
     expires_at |-> expires, is_used |-> FALSE, used_at |-> NoTime]
store_auth_code(code_id, plain_code, user_id, code_type, created, expires) ==
    [id |-> code_id, code |-> _hash_code(plain_code, code_id),
     user_id |-> strip(user_id), type |-> code_type, created_at |-> created,
     expires_at |-> expires, is_used |-> FALSE, used_at |-> NoTime]

\* the row when both readings of the clock in generate_code give one time
NewRow(code_id, plain_code, user_id, code_type, clock) ==
    store_auth_code(code_id, plain_code, user_id, code_type, clock,
                    _calculate_expiration_time(clock))

\* the error generate_code raises, "" when it returns the plaintext.  store
\* is the answer of the table insert: a row ("ok"), no data, or an error
MsgEmptyUser == "Code generation failed: user_id cannot be empty"
MsgInvalidType == "Code generation failed: Invalid code_type provided"
MsgNotStored == "Code generation failed: Failed to store authentication code"
MsgDatabaseError == "Database error"

\* the input checks of generate_code: the message of the error raised, "" when
\* the inputs pass
BadInputErrorSkipsType(user_id, code_type) ==
    IF strip(user_id) = "" THEN MsgEmptyUser ELSE ""
InputError(user_id, code_type) ==
    IF strip(user_id) = "" THEN MsgEmptyUser
    ELSE IF code_type \notin AuthCodeType THEN MsgInvalidType
    ELSE ""

\* what generate_code raises on the store's answer: the insert returned no
\* data, or the repository raised
BadStoreErrorIgnoresNoData(store) ==
    IF store = "error" THEN MsgDatabaseError ELSE ""
StoreError(store) ==
    IF store = "nodata" THEN MsgNotStored
    ELSE IF store = "error" THEN MsgDatabaseError
    ELSE ""

GenerateError(user_id, store) ==
    IF strip(user_id) = "" THEN MsgEmptyUser ELSE StoreError(store)

\* generate_code: what it does to the table.  The plaintext, the id and the
\* salt are fresh random values: the next unused number stands for each
generate_code_within(limit, user_id, code_type, store) ==
    IF GenerateError(user_id, store) # ""
    THEN UNCHANGED <<table, issued>>
    ELSE /\ issued < limit
         /\ issued' = issued + 1
         /\ table' = table @@
               ((issued + 1) :> NewRow(issued + 1, issued + 1, user_id,
                                       code_type, now))

generate_code(user_id, code_type, store) ==
    generate_code_within(MaxCodes, user_id, code_type, store)

(* ------------------- requests: validate and invalidate ---------------- *)

IdleReq ==
    [pc |-> "idle", kind |-> None, code |-> EmptyCode, type |-> None, id |-> 0,
     user |-> "", ok |-> FALSE, message |-> "", expired_deleted |-> 0,
     old_used_deleted |-> 0, total_deleted |-> 0, created_at |-> 0,
     expires_at |-> 0, hashed |-> Raw(EmptyCode), drawn |-> 0, last |-> ""]

\* the messages of CodeValidationResponse
MsgValid == "Authentication code is valid"
MsgInvalid == "Authentication code is invalid, expired, or already used"
MsgInvalidationFailed == "Code validation failed during invalidation"

\* the request ends with a negative answer
Refused(rec, message) ==
    [IdleReq EXCEPT !.pc = "done", !.kind = rec.kind, !.ok = FALSE,
                    !.message = message]

\* invalidate_code up to its repository write: empty code -> False, the code
\* is validated again, no valid row -> False, else the row's id is kept for
\* mark_code_as_used
BadLookupSkipsExpiry(rec, tbl, clock) ==
    LET auth_code == IF rec.code = EmptyCode THEN NoAuthCode
                     ELSE get_auth_code_by_code(tbl, rec.code, rec.type)
    IN  IF auth_code = NoAuthCode
        THEN Refused(rec, IF rec.kind = "endpoint"
                          THEN MsgInvalidationFailed ELSE "")
        ELSE [rec EXCEPT !.pc = "mark", !.id = auth_code.id]

InvalidateLookup(rec, tbl, clock) ==
    LET auth_code == validate_code(tbl, clock, rec.code, rec.type)
    IN  IF auth_code = NoAuthCode
        THEN Refused(rec, IF rec.kind = "endpoint"
                          THEN MsgInvalidationFailed ELSE "")
        ELSE [rec EXCEPT !.pc = "mark", !.id = auth_code.id]

\* POST /api/v1/validate-code, first half: validate_code
EndpointValidate(r, code, code_type) ==
    /\ req[r].pc = "idle"
    /\ LET auth_code == validate_code(table, now, code, code_type)
           rec == [IdleReq EXCEPT !.kind = "endpoint", !.code = code,
                                  !.type = code_type]
       IN  req' = [req EXCEPT ![r] =
                     IF auth_code = NoAuthCode
                     THEN Refused(rec, MsgInvalid)
                     ELSE [rec EXCEPT !.pc = "inv",
                                      !.user = auth_code.user_id]]
    /\ UNCHANGED <<now, table, issued, disp>>

\* POST /api/v1/validate-code, second half: invalidate_code validates again
EndpointInvalidate(r) ==
    /\ req[r].pc = "inv"
    /\ req' = [req EXCEPT ![r] = InvalidateLookup(req[r], table, now)]
    /\ UNCHANGED <<now, table, issued, disp>>

\* AuthCodeService.invalidate_code(code, code_type), called on its own
Invalidate(r, code, code_type) ==
    /\ req[r].pc = "idle"
    /\ req' = [req EXCEPT ![r] =
                 InvalidateLookup([IdleReq EXCEPT !.kind = "invalidate",
                                                  !.code = code,
                                                  !.type = code_type],
                                  table, now)]
    /\ UNCHANGED <<now, table, issued, disp>>

\* AuthCodeService.invalidate_code_by_id(code_id), up to its repository write
BadByIdRemarksUsed(r, code_id) ==
    /\ req[r].pc = "idle"
    /\ LET auth_code == get_auth_code_by_id(table, code_id)
           rec == [IdleReq EXCEPT !.kind = "by_id", !.id = code_id]
       IN  req' = [req EXCEPT ![r] =
                     IF code_id = 0 \/ auth_code = NoAuthCode
                     THEN Refused(rec, "")
                     ELSE [rec EXCEPT !.pc = "mark"]]
    /\ UNCHANGED <<now, table, issued, disp>>

BadByIdRefusesExpired(r, code_id) ==
    /\ req[r].pc = "idle"
    /\ LET auth_code == get_auth_code_by_id(table, code_id)
           rec == [IdleReq EXCEPT !.kind = "by_id", !.id = code_id]
       IN  req' = [req EXCEPT ![r] =
                     IF code_id = 0 \/ auth_code = NoAuthCode
                     THEN Refused(rec, "")
                     ELSE IF auth_code.is_used
                     THEN [rec EXCEPT !.pc = "done", !.ok = TRUE]
                     ELSE IF is_expired(auth_code, now)
                     THEN Refused(rec, "")
                     ELSE [rec EXCEPT !.pc = "mark"]]
    /\ UNCHANGED <<now, table, issued, disp>>

InvalidateById(r, code_id) ==
    /\ req[r].pc = "idle"
    /\ LET auth_code == get_auth_code_by_id(table, code_id)
           rec == [IdleReq EXCEPT !.kind = "by_id", !.id = code_id]
       IN  req' = [req EXCEPT ![r] =
                     IF code_id = 0 \/ auth_code = NoAuthCode
                     THEN Refused(rec, "")
                     ELSE IF auth_code.is_used
                     THEN [rec EXCEPT !.pc = "done", !.ok = TRUE]
                     ELSE [rec EXCEPT !.pc = "mark"]]
    /\ UNCHANGED <<now, table, issued, disp>>

\* the repository write of invalidate_code / invalidate_code_by_id and the
\* answer built from its result
MarkUsed(r) ==
    /\ req[r].pc = "mark"
    /\ LET success == req[r].id \in DOMAIN table
       IN  /\ table' = mark_code_as_used(table, req[r].id, now)
           /\ req' = [req EXCEPT ![r] =
                        IF success
                        THEN [req[r] EXCEPT !.pc = "done", !.ok = TRUE,
                                            !.message =
                                               IF req[r].kind = "endpoint"
                                               THEN MsgValid ELSE ""]
                        ELSE Refused(req[r], IF req[r].kind = "endpoint"
                                             THEN MsgInvalidationFailed ELSE "")]
    /\ UNCHANGED <<now, issued, disp>>

\* the caller has its answer; the worker is free for the next request
Return(r) ==
    /\ req[r].pc = "done"
    /\ req' = [req EXCEPT ![r] = IdleReq]
    /\ UNCHANGED <<now, table, issued, disp>>

\* AuthCodeService.generate_code(user_id, code_type), called on its own
GenerateCode(user_id, code_type, store) ==
    /\ generate_code(user_id, code_type, store)
    /\ UNCHANGED <<now, req, disp>>

\* AuthCodeService.cleanup_expired_codes
CleanupExpired ==
    /\ ExpiredIds(table, now) # {}
    /\ table' = delete_expired_codes(table, now)
    /\ UNCHANGED <<now, issued, req, disp>>

(* ------------------------------- the sweeps --------------------------- *)

\* AuthCodeService.cleanup_expired_codes with its return value
CleanupExpiredCodes(r) ==
    /\ req[r].pc = "idle"
    /\ LET after == delete_expired_codes(table, now)
       IN  /\ table' = after
           /\ req' = [req EXCEPT ![r] =
                        [IdleReq EXCEPT !.pc = "done", !.kind = "cleanup_expired",
                                        !.ok = TRUE,
                                        !.expired_deleted =
                                           deleted_count(table, after)]]
    /\ UNCHANGED <<now, issued, disp>>

\* cleanup_all_expired_and_used_codes, first delete: the expired rows
CleanupAllExpired(r) ==
    /\ req[r].pc = "idle"
    /\ LET after == delete_expired_codes(table, now)
       IN  /\ table' = after
           /\ req' = [req EXCEPT ![r] =
                        [IdleReq EXCEPT !.pc = "sweep_used", !.kind = "cleanup_all",
                                        !.expired_deleted =
                                           deleted_count(table, after)]]
    /\ UNCHANGED <<now, issued, disp>>

\* cleanup_all_expired_and_used_codes, second delete: the rows used more
\* than 24 hours ago; then the statistics
CleanupAllUsed(r) ==
    /\ req[r].pc = "sweep_used"
    /\ LET after == delete_used_codes_older_than_hours(table, now,
                                                       UsedRetentionHours)
           used_deleted == deleted_count(table, after)
       IN  /\ table' = after
           /\ req' = [req EXCEPT ![r] =
                        [req[r] EXCEPT !.pc = "done", !.ok = TRUE,
                                       !.old_used_deleted = used_deleted,
                                       !.total_deleted =
                                          req[r].expired_deleted + used_deleted]]
    /\ UNCHANGED <<now, issued, disp>>

\* AuthCodeService.get_service_stats: cleanup_expired_codes, then the
\* statistics with expired_codes_cleaned
GetServiceStats(r) ==
    /\ req[r].pc = "idle"
    /\ LET after == delete_expired_codes(table, now)
       IN  /\ table' = after
           /\ req' = [req EXCEPT ![r] =
                        [IdleReq EXCEPT !.pc = "done", !.kind = "service_stats",
                                        !.ok = TRUE, !.message = "operational",
                                        !.expired_deleted =
                                           deleted_count(table, after)]]
    /\ UNCHANGED <<now, issued, disp>>

\* the overall status of the health check from its three components
OverallHealth(healthy) ==
    IF \A k \in DOMAIN healthy : healthy[k] THEN "healthy"
    ELSE IF \E k \in DOMAIN healthy : healthy[k] THEN "degraded"
    ELSE "unhealthy"

\* EmailService.health_check: get_service_stats with its cleanup, then the
\* template manager and the provider are asked
HealthCheck(r, templates, azure_healthy) ==
    /\ req[r].pc = "idle"
    /\ table' = delete_expired_codes(table, now)
    /\ req' = [req EXCEPT ![r] =
                 [IdleReq EXCEPT !.pc = "done", !.kind = "health_check",
                                 !.ok = TRUE,
                                 !.message =
                                    OverallHealth(<<TRUE, templates,
                                                    azure_healthy>>)]]
    /\ UNCHANGED <<now, issued, disp>>

\* AuthCodeRepository.mark_code_as_used(code_id) on a row of the table
MarkCodeAsUsed(code_id) ==
    /\ code_id \in DOMAIN table
    /\ table' = mark_code_as_used(table, code_id, now)
    /\ UNCHANGED <<now, issued, req, disp>>

\* generate_code while rows are left for the sweeps to work on
GenerateCodes(user_id, code_type) ==
    /\ generate_code_within(MaxRows, user_id, code_type, "ok")
    /\ issued' # issued
    /\ UNCHANGED <<now, req, disp>>

(* ------------------------------ AzureClient --------------------------- *)

\* a response body as response.json() gives it: shape is "object" for a JSON
\* object and "array" for any other JSON value; error is what stands under
\* the key "error": "absent", "object" (error_message is then its message),
\* "string" or "null"; in the other fields "" is an absent field
EmptyBody ==
    [id |-> "", error_message |-> "", message |-> "", error_description |-> "",
     details |-> "", error |-> "absent", shape |-> "object"]

\* what one HTTP exchange with the provider can give: a response with a
\* status, body and x-ms-request-id header, or a timeout / connection error
Responses ==
    { [kind |-> "http", status |-> 202, body |-> [EmptyBody EXCEPT !.id = "abc"],
       request_id |-> "req-1"],
      [kind |-> "http", status |-> 202, body |-> EmptyBody, request_id |-> "req-1"],
      [kind |-> "http", status |-> 404,
       body |-> [EmptyBody EXCEPT !.message = "Resource not found"],
       request_id |-> ""],
      [kind |-> "http", status |-> 429, body |-> EmptyBody, request_id |-> ""],
      [kind |-> "http", status |-> 503, body |-> EmptyBody, request_id |-> ""],
      [kind |-> "network", status |-> 0, body |-> EmptyBody, request_id |-> ""] }

MsgRateLimit == "Rate limit exceeded - too many requests"

\* the steps of one call that the outside can observe: the HMAC signing of
\* the request (_generate_auth_headers), the HTTP post, the backoff sleep
OpSign == [op |-> "sign", arg |-> 0]
OpPost == [op |-> "post", arg |-> 0]
OpSleep(delay) == [op |-> "sleep", arg |-> delay]

\* the fixed text _extract_error_message has for a status
StatusMessage(status_code) ==
    IF status_code = 400 THEN "Bad request - invalid email parameters"
    ELSE IF status_code = 401 THEN "Unauthorized - invalid Azure API key"
    ELSE IF status_code = 403 THEN "Forbidden - insufficient permissions"
    ELSE IF status_code = 404 THEN "Not found - invalid Azure endpoint"
    ELSE IF status_code = 429 THEN MsgRateLimit
    ELSE IF 500 <= status_code /\ status_code < 600
         THEN "Azure Communication Services internal error"
    ELSE IF status_code = 302 THEN "Azure API request failed with status 302"
    ELSE IF status_code = 418 THEN "Azure API request failed with status 418"
    ELSE "Azure API request failed with status N"

\* the exception of response_data.get("error", {}).get("message") when the
\* value under "error" is not an object, and of response_data.get("id")
\* when the body is not an object
AttributeError == "AttributeError"

\* _extract_error_message: the first non-empty of error.message, message,
\* error_description, details; else the fixed text of the status
_extract_error_message(response_data, status_code) ==
    IF response_data.shape # "object" THEN StatusMessage(status_code)
    ELSE IF response_data.error \in {"string", "null"} THEN AttributeError
    ELSE IF response_data.error = "object" /\ response_data.error_message # ""
         THEN response_data.error_message
    ELSE IF response_data.message # "" THEN response_data.message
    ELSE IF response_data.error_description # "" THEN response_data.error_description
    ELSE IF response_data.details # "" THEN response_data.details
    ELSE StatusMessage(status_code)

\* the class of what _handle_azure_response raises with that message
ErrorClass(error_message) ==
    IF error_message = AttributeError THEN AttributeError ELSE "AzureClientError"

BadMessageIdPrefersHeader(mock_mode, resp) ==
    IF mock_mode
    THEN [raised |-> FALSE, error_class |-> "", success |-> TRUE,
          message_id |-> "mock_msg",
          error_message |-> "", status_code |-> 202, ops |-> <<>>]
    ELSE IF resp.kind = "network"
    THEN [raised |-> TRUE, error_class |-> "AzureClientError", success |-> FALSE,
          message_id |-> "",
          error_message |-> "Request to Azure Communication Services failed",
          status_code |-> 0, ops |-> <<OpSign, OpPost>>]
    ELSE IF 200 <= resp.status /\ resp.status < 300
    THEN [raised |-> FALSE, error_class |-> "", success |-> TRUE,
          message_id |-> IF resp.request_id # "" THEN resp.request_id ELSE resp.body.id,
          error_message |-> "", status_code |-> resp.status,
          ops |-> <<OpSign, OpPost>>]
    ELSE [raised |-> TRUE, error_class |-> "AzureClientError", success |-> FALSE,
          message_id |-> "",
          error_message |-> "Request failed", status_code |-> resp.status,
          ops |-> <<OpSign, OpPost>>]

BadMockAfterSigning(mock_mode, resp) ==
    IF mock_mode
    THEN [raised |-> FALSE, error_class |-> "", success |-> TRUE,
          message_id |-> "mock_msg",
          error_message |-> "", status_code |-> 202, ops |-> <<OpSign>>]
    ELSE IF resp.kind = "network"
    THEN [raised |-> TRUE, error_class |-> "AzureClientError", success |-> FALSE,
          message_id |-> "",
          error_message |-> "Request to Azure Communication Services failed",
          status_code |-> 0, ops |-> <<OpSign, OpPost>>]
    ELSE IF 200 <= resp.status /\ resp.status < 300
    THEN [raised |-> FALSE, error_class |-> "", success |-> TRUE,
          message_id |-> IF resp.body.id # "" THEN resp.body.id ELSE resp.request_id,
          error_message |-> "", status_code |-> resp.status,
          ops |-> <<OpSign, OpPost>>]
    ELSE [raised |-> TRUE, error_class |-> "AzureClientError", success |-> FALSE,
          message_id |-> "",
          error_message |-> _extract_error_message(resp.body, resp.status),
          status_code |-> resp.status,
          ops |-> <<OpSign, OpPost>>]

\* _make_azure_request with _handle_azure_response: AzureResponse(success=True)
\* for mock mode and for 2xx, AzureClientError raised for everything else.
\* ops are the steps the call ran: none in mock mode, which returns before
\* the headers are generated; else the signing and the post
_make_azure_request(mock_mode, resp) ==
    IF mock_mode
    THEN [raised |-> FALSE, error_class |-> "", success |-> TRUE,
          message_id |-> "mock_msg",
          error_message |-> "", status_code |-> 202, ops |-> <<>>]
    ELSE IF resp.kind = "network"
    THEN [raised |-> TRUE, error_class |-> "AzureClientError", success |-> FALSE,
          message_id |-> "",
          error_message |-> "Request to Azure Communication Services failed",
          status_code |-> 0, ops |-> <<OpSign, OpPost>>]
    ELSE IF 200 <= resp.status /\ resp.status < 300
    THEN IF resp.body.shape # "object"
         THEN [raised |-> TRUE, error_class |-> AttributeError, success |-> FALSE,
               message_id |-> "", error_message |-> AttributeError,
               status_code |-> resp.status, ops |-> <<OpSign, OpPost>>]
         ELSE [raised |-> FALSE, error_class |-> "", success |-> TRUE,
               message_id |-> IF resp.body.id # "" THEN resp.body.id
                              ELSE resp.request_id,
               error_message |-> "", status_code |-> resp.status,
               ops |-> <<OpSign, OpPost>>]
    ELSE [raised |-> TRUE,
          error_class |-> ErrorClass(_extract_error_message(resp.body, resp.status)),
          success |-> FALSE, message_id |-> "",
          error_message |-> _extract_error_message(resp.body, resp.status),
          status_code |-> resp.status, ops |-> <<OpSign, OpPost>>]

\* _make_azure_request when the post times out: the handler of
\* httpx.TimeoutException reads self.timeout.total and raises AzureClientError;
\* has_total is whether the httpx.Timeout object has that attribute, and
\* without it the read raises AttributeError
TimedOut(has_total) ==
    [raised |-> TRUE,
     error_class |-> IF has_total THEN "AzureClientError" ELSE AttributeError,
     success |-> FALSE, message_id |-> "",
     error_message |-> IF has_total
                       THEN "Request to Azure Communication Services timed out"
                       ELSE AttributeError,
     status_code |-> 0, ops |-> <<OpSign, OpPost>>]

\* what a substituted sender (the azure_client constructor argument of
\* EmailService) gives: an AzureResponse, successful or not, or a raise
StubResults ==
    { [raised |-> FALSE, error_class |-> "", success |-> TRUE, message_id |-> "azure-msg-123",
       error_message |-> "", status_code |-> 200],
      [raised |-> FALSE, error_class |-> "", success |-> FALSE, message_id |-> "",
       error_message |-> "Rate limit exceeded", status_code |-> 429],
      [raised |-> TRUE, error_class |-> "AzureClientError", success |-> FALSE,
          message_id |-> "",
       error_message |-> "Azure API unavailable", status_code |-> 503] }

(* ------------------------------ EmailService -------------------------- *)

IdleDisp ==
    [pc |-> "idle", type |-> None, user |-> "", code |-> EmptyCode, id |-> 0,
     sender |-> None, attempt |-> 0, waits |-> <<>>, status |-> 0,
     outcome |-> None, success |-> FALSE, message |-> "", detail |-> "",
     message_id |-> "", inv_calls |-> <<>>, inv_raised |-> FALSE,
     trace |-> <<>>, errors |-> <<>>, signing |-> <<>>]

\* the fixed parts of the EmailResponse / EmailServiceError messages
SentMessage(code_type) ==
    IF code_type = EMAIL_CONFIRMATION
    THEN "Confirmation email sent successfully"
    ELSE "Password reset email sent successfully"
FailedMessage(code_type) ==
    IF code_type = EMAIL_CONFIRMATION
    THEN "Failed to send confirmation email"
    ELSE "Failed to send password reset email"
MsgGenerateFailed == "Failed to generate authentication code"
MsgTemplateFailed == "Failed to process email template"
MsgAzureFailed == "Failed to send email via Azure"
MsgUnexpected == "Unexpected error"

\* the call ends by raising EmailServiceError
Raised(rec, message, detail) ==
    [rec EXCEPT !.pc = "done", !.outcome = "raised", !.success = FALSE,
                !.message = message, !.detail = detail]

\* the call ends by returning an EmailResponse
Returned(rec, success, message, detail, message_id) ==
    [rec EXCEPT !.pc = "done", !.outcome = "returned", !.success = success,
                !.message = message, !.detail = detail,
                !.message_id = message_id]

\* send_confirmation_email / send_password_reset_email, step 1: generate_code
BadGenerateUnexpected(d, user_id, code_type, store) ==
    /\ disp[d].pc = "idle"
    /\ generate_code(user_id, code_type, store)
    /\ LET rec == [IdleDisp EXCEPT !.type = code_type, !.user = user_id]
           error == GenerateError(user_id, store)
       IN  disp' = [disp EXCEPT ![d] =
                      IF error # "" THEN Raised(rec, "Unexpected error", error)
                      ELSE [rec EXCEPT !.pc = "render", !.code = issued + 1,
                                       !.id = issued + 1]]
    /\ UNCHANGED <<now, req>>

Generate(d, user_id, code_type, store) ==
    /\ disp[d].pc = "idle"
    /\ generate_code(user_id, code_type, store)
    /\ LET rec == [IdleDisp EXCEPT !.type = code_type, !.user = user_id]
           error == GenerateError(user_id, store)
       IN  disp' = [disp EXCEPT ![d] =
                      IF error # "" THEN Raised(rec, MsgGenerateFailed, error)
                      ELSE [rec EXCEPT !.pc = "render", !.code = issued + 1,
                                       !.id = issued + 1]]
    /\ UNCHANGED <<now, req>>

\* step 2: _compose_email; a template failure raises EmailServiceError
BadRenderContinues(d, rendered) ==
    /\ disp[d].pc = "render"
    /\ disp' = [disp EXCEPT ![d] = [disp[d] EXCEPT !.pc = "send"]]
    /\ UNCHANGED <<now, table, issued, req>>

BadRenderInvalidates(d, rendered) ==
    /\ disp[d].pc = "render"
    /\ disp' = [disp EXCEPT ![d] =
                  IF rendered THEN [disp[d] EXCEPT !.pc = "send"]
                  ELSE Raised(disp[d], MsgTemplateFailed, "Email composition failed")]
    /\ table' = IF rendered THEN table
                ELSE mark_code_as_used(table, disp[d].id, now)
    /\ UNCHANGED <<now, issued, req>>

Render(d, rendered) ==
    /\ disp[d].pc = "render"
    /\ disp' = [disp EXCEPT ![d] =
                  IF rendered THEN [disp[d] EXCEPT !.pc = "send"]
                  ELSE Raised(disp[d], MsgTemplateFailed, "Email composition failed")]
    /\ UNCHANGED <<now, table, issued, req>>

\* what send_*_email does with the AzureResponse the sender returned: success
\* ends the call, a failure result starts the compensating invalidate_code
AfterSend(rec, azure_response) ==
    IF azure_response.success
    THEN Returned(rec, TRUE, SentMessage(rec.type), "", azure_response.message_id)
    ELSE [rec EXCEPT !.pc = "comp", !.detail = azure_response.error_message,
                     !.inv_calls = Append(rec.inv_calls, <<rec.code, rec.type>>)]

\* AzureClient.send_email: one pass of the retry loop on the answer r of
\* _make_azure_request.  A 4xx error is raised at once; any other error is
\* retried after RetryDelay * 2^attempt while attempts are left, and raised
\* after the last attempt; send_*_email turns the raise into EmailServiceError
BadSendFourAttempts(rec, r) ==
    LET counted == [rec EXCEPT !.attempt = rec.attempt + 1,
                               !.status = r.status_code,
                               !.trace = rec.trace \o r.ops,
                               !.errors = IF r.raised
                                          THEN Append(rec.errors, r.error_message)
                                          ELSE rec.errors]
        delay == RetryDelay * (2 ^ rec.attempt)
    IN  IF ~r.raised THEN AfterSend(counted, r)
        ELSE IF 400 <= r.status_code /\ r.status_code < 500
        THEN Raised(counted, MsgAzureFailed, r.error_message)
        ELSE IF rec.attempt < MaxRetries
        THEN [counted EXCEPT !.waits = Append(rec.waits, delay),
                             !.trace = Append(counted.trace, OpSleep(delay))]
        ELSE Raised(counted, MsgAzureFailed, r.error_message)

BadSendRetriesClientError(rec, r) ==
    LET counted == [rec EXCEPT !.attempt = rec.attempt + 1,
                               !.status = r.status_code,
                               !.trace = rec.trace \o r.ops,
                               !.errors = IF r.raised
                                          THEN Append(rec.errors, r.error_message)
                                          ELSE rec.errors]
        delay == RetryDelay * (2 ^ rec.attempt)
    IN  IF ~r.raised THEN AfterSend(counted, r)
        ELSE IF rec.attempt < MaxRetries - 1
        THEN [counted EXCEPT !.waits = Append(rec.waits, delay),
                             !.trace = Append(counted.trace, OpSleep(delay))]
        ELSE Raised(counted, MsgAzureFailed, r.error_message)

BadSendConstantBackoff(rec, r) ==
    LET counted == [rec EXCEPT !.attempt = rec.attempt + 1,
                               !.status = r.status_code,
                               !.trace = rec.trace \o r.ops,
                               !.errors = IF r.raised
                                          THEN Append(rec.errors, r.error_message)
                                          ELSE rec.errors]
        delay == RetryDelay
    IN  IF ~r.raised THEN AfterSend(counted, r)
        ELSE IF 400 <= r.status_code /\ r.status_code < 500
        THEN Raised(counted, MsgAzureFailed, r.error_message)
        ELSE IF rec.attempt < MaxRetries - 1
        THEN [counted EXCEPT !.waits = Append(rec.waits, delay),
                             !.trace = Append(counted.trace, OpSleep(delay))]
        ELSE Raised(counted, MsgAzureFailed, r.error_message)

BadSendGenericError(rec, r) ==
    LET counted == [rec EXCEPT !.attempt = rec.attempt + 1,
                               !.status = r.status_code,
                               !.trace = rec.trace \o r.ops,
                               !.errors = IF r.raised
                                          THEN Append(rec.errors, r.error_message)
                                          ELSE rec.errors]
        delay == RetryDelay * (2 ^ rec.attempt)
    IN  IF ~r.raised THEN AfterSend(counted, r)
        ELSE IF 400 <= r.status_code /\ r.status_code < 500
        THEN Raised(counted, MsgAzureFailed, r.error_message)
        ELSE IF rec.attempt < MaxRetries - 1
        THEN [counted EXCEPT !.waits = Append(rec.waits, delay),
                             !.trace = Append(counted.trace, OpSleep(delay))]
        ELSE Raised(counted, MsgAzureFailed, "Email sending failed after all retries")

send_email(rec, r) ==
    LET counted == [rec EXCEPT !.attempt = rec.attempt + 1,
                               !.status = r.status_code,
                               !.trace = rec.trace \o r.ops,
                               !.errors = IF r.raised
                                          THEN Append(rec.errors, r.error_message)
                                          ELSE rec.errors]
        delay == RetryDelay * (2 ^ rec.attempt)
    IN  IF ~r.raised THEN AfterSend(counted, r)
        ELSE IF r.error_class # "AzureClientError"
        THEN Raised(counted, MsgUnexpected, r.error_message)
        ELSE IF 400 <= r.status_code /\ r.status_code < 500
        THEN Raised(counted, MsgAzureFailed, r.error_message)
        ELSE IF rec.attempt < MaxRetries - 1
        THEN [counted EXCEPT !.waits = Append(rec.waits, delay),
                             !.trace = Append(counted.trace, OpSleep(delay))]
        ELSE Raised(counted, MsgAzureFailed, r.error_message)

\* step 3 with AzureClient talking to the provider
Attempt(d, resp) ==
    /\ disp[d].pc = "send"
    /\ disp[d].sender \in {None, "azure"}
    /\ disp' = [disp EXCEPT ![d] =
                  send_email([disp[d] EXCEPT !.sender = "azure"],
                             _make_azure_request(FALSE, resp))]
    /\ UNCHANGED <<now, table, issued, req>>

\* step 3 with AzureClient in mock mode: no request is made
MockAttempt(d) ==
    /\ disp[d].pc = "send"
    /\ disp[d].sender = None
    /\ disp' = [disp EXCEPT ![d] =
                  send_email([disp[d] EXCEPT !.sender = "azure_mock"],
                             _make_azure_request(TRUE, CHOOSE resp \in Responses : TRUE))]
    /\ UNCHANGED <<now, table, issued, req>>

\* step 3 with a substituted sender
StubSend(d, r) ==
    /\ disp[d].pc = "send"
    /\ disp[d].sender = None
    /\ LET rec == [disp[d] EXCEPT !.sender = "stub", !.attempt = 1,
                                  !.status = r.status_code]
       IN  disp' = [disp EXCEPT ![d] =
                      IF r.raised THEN Raised(rec, MsgAzureFailed, r.error_message)
                      ELSE AfterSend(rec, r)]
    /\ UNCHANGED <<now, table, issued, req>>

BadCompensatePropagates(d, db_ok) ==
    /\ disp[d].pc = "comp"
    /\ disp' = [disp EXCEPT ![d] =
                  IF ~db_ok
                  THEN Raised(disp[d], "Unexpected error", "Database error")
                  ELSE [disp[d] EXCEPT !.pc = "comp_mark"]]
    /\ UNCHANGED <<now, table, issued, req>>

\* step 4, the compensating invalidate_code, up to its repository write; an
\* exception of invalidate_code is logged and ignored
Compensate(d, db_ok) ==
    /\ disp[d].pc = "comp"
    /\ LET auth_code == validate_code(table, now, disp[d].code, disp[d].type)
       IN  disp' = [disp EXCEPT ![d] =
             IF ~db_ok
             THEN Returned([disp[d] EXCEPT !.inv_raised = TRUE], FALSE,
                           FailedMessage(disp[d].type), disp[d].detail, "")
             ELSE IF auth_code = NoAuthCode
             THEN Returned(disp[d], FALSE, FailedMessage(disp[d].type),
                           disp[d].detail, "")
             ELSE [disp[d] EXCEPT !.pc = "comp_mark"]]
    /\ UNCHANGED <<now, table, issued, req>>

\* step 4, the repository write of the compensating invalidate_code
CompensateMark(d, db_ok) ==
    /\ disp[d].pc = "comp_mark"
    /\ table' = IF db_ok THEN mark_code_as_used(table, disp[d].id, now) ELSE table
    /\ disp' = [disp EXCEPT ![d] =
                  Returned([disp[d] EXCEPT !.inv_raised = ~db_ok], FALSE,
                           FailedMessage(disp[d].type), disp[d].detail, "")]
    /\ UNCHANGED <<now, issued, req>>

\* the caller has its result
Finish(d) ==
    /\ disp[d].pc = "done"
    /\ disp' = [disp EXCEPT ![d] = IdleDisp]
    /\ UNCHANGED <<now, table, issued, req>>

(* ---------------------------- specifications -------------------------- *)

TypeOK ==
    /\ now \in 0..(MaxTicks * ExpirationMinutes)
    /\ issued \in 0..MaxCodes
    /\ DOMAIN table \subseteq 1..issued
    /\ \A i \in DOMAIN table : table[i].id = i

Init ==
    /\ now = 0
    /\ table = <<>>
    /\ issued = 0
    /\ req = [r \in Requests |-> IdleReq]
    /\ disp = [d \in Dispatchers |-> IdleDisp]

\* the clock advances by one expiration period
Tick ==
    /\ now < MaxTicks * ExpirationMinutes
    /\ now' = now + ExpirationMinutes
    /\ UNCHANGED <<table, issued, req, disp>>

StoreAnswers == {"ok", "nodata", "error"}

\* the code lifecycle: codes are generated, validated and invalidated by
\* concurrent requests, and swept
Next ==
    \/ Tick
    \/ CleanupExpired
    \/ \E user_id \in UserInputs, code_type \in AuthCodeType, store \in StoreAnswers :
          GenerateCode(user_id, code_type, store)
    \/ \E r \in Requests, code \in Plaintexts, code_type \in AuthCodeType :
          EndpointValidate(r, code, code_type)
    \/ \E r \in Requests : EndpointInvalidate(r)
    \/ \E r \in Requests, code \in CodeInputs, code_type \in AuthCodeType :
          Invalidate(r, code, code_type)
    \/ \E r \in Requests, code_id \in 0..MaxCodes : InvalidateById(r, code_id)
    \/ \E r \in Requests : MarkUsed(r)
    \/ \E r \in Requests : Return(r)

Spec == Init /\ [][Next]_vars

\* the dispatch: one send_*_email call at a time, next to one client that
\* redeems codes through the validate-code endpoint
Redeemers == {"r1"}

NextSend ==
    \/ Tick
    \/ CleanupExpired
    \/ \E d \in Dispatchers, user_id \in UserInputs, code_type \in AuthCodeType,
          store \in StoreAnswers : Generate(d, user_id, code_type, store)
    \/ \E d \in Dispatchers, rendered \in BOOLEAN : Render(d, rendered)
    \/ \E d \in Dispatchers, resp \in Responses : Attempt(d, resp)
    \/ \E d \in Dispatchers : MockAttempt(d)
    \/ \E d \in Dispatchers, r \in StubResults : StubSend(d, r)
    \/ \E d \in Dispatchers, db_ok \in BOOLEAN : Compensate(d, db_ok)
    \/ \E d \in Dispatchers, db_ok \in BOOLEAN : CompensateMark(d, db_ok)
    \/ \E d \in Dispatchers : Finish(d)
    \/ \E r \in Redeemers, code \in Plaintexts, code_type \in AuthCodeType :
          EndpointValidate(r, code, code_type)
    \/ \E r \in Redeemers : EndpointInvalidate(r)
    \/ \E r \in Redeemers : MarkUsed(r)
    \/ \E r \in Redeemers : Return(r)

SpecSend == Init /\ [][NextSend]_vars

\* the sweeps: the clock is read at the start of a day and one expiration
\* period later; a day is the retention period of used rows
DayMinutes == UsedRetentionHours * 60

ElapseMinutes ==
    /\ now % DayMinutes = 0
    /\ now' = now + ExpirationMinutes
    /\ UNCHANGED <<table, issued, req, disp>>

ElapseDay ==
    /\ now \div DayMinutes < MaxDays
    /\ now' = now + DayMinutes
    /\ UNCHANGED <<table, issued, req, disp>>

Sweepers == {"r1"}

NextSweep ==
    \/ ElapseMinutes
    \/ ElapseDay
    \/ \E code_type \in AuthCodeType : GenerateCodes("u1", code_type)
    \/ \E code_id \in 1..MaxRows : MarkCodeAsUsed(code_id)
    \/ \E r \in Sweepers : CleanupExpiredCodes(r)
    \/ \E r \in Sweepers : CleanupAllExpired(r)
    \/ \E r \in Sweepers : CleanupAllUsed(r)
    \/ \E r \in Sweepers : GetServiceStats(r)
    \/ \E r \in Sweepers, templates \in BOOLEAN, azure_healthy \in BOOLEAN :
          HealthCheck(r, templates, azure_healthy)
    \/ \E r \in Sweepers : Return(r)

SpecSweep == Init /\ [][NextSweep]_vars

(* ----------------- generate_code and the digests, in steps ------------ *)

BogusType == "bogus"
TypeInputs == AuthCodeType \cup {BogusType}
MsgConstruction == "Code generation failed: expires_at must be after created_at"

\* generate_code up to the first reading of the clock: the input checks, the
\* new plaintext and id, created_at
GenBegin(r, user_id, code_type) ==
    /\ req[r].pc = "idle"
    /\ LET error == InputError(user_id, code_type)
           rec == [IdleReq EXCEPT !.kind = "generate"]
       IN  IF error # ""
           THEN /\ req' = [req EXCEPT ![r] =
                             [rec EXCEPT !.pc = "done", !.message = error]]
                /\ UNCHANGED issued
           ELSE /\ issued < MaxRows
                /\ issued' = issued + 1
                /\ req' = [req EXCEPT ![r] =
                             [rec EXCEPT !.pc = "gen_expiry",
                                         !.code = issued + 1,
                                         !.id = issued + 1,
                                         !.user = strip(user_id),
                                         !.type = code_type,
                                         !.created_at = now]]
    /\ UNCHANGED <<now, table, disp>>

\* the second reading of the clock, and the AuthCode built in memory with
\* the placeholder in its code field
GenExpiry(r) ==
    /\ req[r].pc = "gen_expiry"
    /\ LET expiration_time == _calculate_expiration_time(now)
       IN  req' = [req EXCEPT ![r] =
                     IF AuthCodeRejected(req[r].created_at, expiration_time)
                     THEN [IdleReq EXCEPT !.pc = "done", !.kind = "generate",
                                          !.message = MsgConstruction]
                     ELSE [req[r] EXCEPT !.pc = "gen_store",
                                         !.expires_at = expiration_time,
                                         !.hashed = Raw(Placeholder)]]
    /\ UNCHANGED <<now, table, issued, disp>>

\* store_auth_code and the end of generate_code: the plaintext is returned
\* when the insert returned data, an error is raised otherwise
GenStore(r, store) ==
    /\ req[r].pc = "gen_store"
    /\ LET error == StoreError(store)
           row == store_auth_code(req[r].id, req[r].code, req[r].user,
                                  req[r].type, req[r].created_at,
                                  req[r].expires_at)
       IN  IF error # ""
           THEN /\ req' = [req EXCEPT ![r] =
                             [IdleReq EXCEPT !.pc = "done", !.kind = "generate",
                                             !.id = req[r].id,
                                             !.message = error]]
                /\ UNCHANGED table
           ELSE /\ table' = table @@ (req[r].id :> row)
                /\ req' = [req EXCEPT ![r] =
                             [req[r] EXCEPT !.pc = "done", !.ok = TRUE,
                                            !.hashed = row.code]]
    /\ UNCHANGED <<now, issued, disp>>

\* AuthCode(...) built by a caller with the two times it chooses
Construct(r, created_at, expires_at) ==
    /\ req[r].pc = "idle"
    /\ req' = [req EXCEPT ![r] =
                 [IdleReq EXCEPT !.pc = "done", !.kind = "construct",
                                 !.created_at = created_at,
                                 !.expires_at = expires_at,
                                 !.ok = ~AuthCodeRejected(created_at, expires_at)]]
    /\ UNCHANGED <<now, table, issued, disp>>

\* the arguments _hash_code and _verify_code are given as a plaintext: None,
\* the empty string, a code
PlainArgs == {NullArg, EmptyCode} \cup Plaintexts

\* _hash_code(code): the digest under a new salt; None raises
HashCode(r, code) ==
    /\ req[r].pc = "idle"
    /\ IF code = NullArg
       THEN /\ req' = [req EXCEPT ![r] =
                         [IdleReq EXCEPT !.pc = "done", !.kind = "hash",
                                         !.code = code]]
            /\ UNCHANGED issued
       ELSE /\ issued < MaxRows
            /\ issued' = issued + 1
            /\ req' = [req EXCEPT ![r] =
                         [IdleReq EXCEPT !.pc = "hashed", !.kind = "hash",
                                         !.code = code, !.ok = TRUE,
                                         !.hashed = _hash_code(code, issued + 1)]]
    /\ UNCHANGED <<now, table, disp>>

\* the strings _verify_code can be given as a digest: the digests made so
\* far, None, the empty string, the plaintext itself
HashArgs ==
    {req[r].hashed : r \in {x \in Requests : req[x].pc = "hashed"}}
        \cup {table[i].code : i \in DOMAIN table}
        \cup {Raw(p) : p \in PlainArgs}

\* _verify_code(plain_code, hashed_code)
VerifyCode(r, plain_code, hashed_code) ==
    /\ req[r].pc = "idle"
    /\ req' = [req EXCEPT ![r] =
                 [IdleReq EXCEPT !.pc = "done", !.kind = "verify",
                                 !.code = plain_code, !.hashed = hashed_code,
                                 !.ok = _verify_code(plain_code, hashed_code)]]
    /\ UNCHANGED <<now, table, issued, disp>>

\* the clock advances by a minute
ElapseMinute ==
    /\ now < MaxTicks
    /\ now' = now + 1
    /\ UNCHANGED <<table, issued, req, disp>>

Generators == {"r1"}

NextGen ==
    \/ ElapseMinute
    \/ \E r \in Generators, user_id \in UserInputs, code_type \in TypeInputs :
          GenBegin(r, user_id, code_type)
    \/ \E r \in Generators : GenExpiry(r)
    \/ \E r \in Generators, store \in StoreAnswers : GenStore(r, store)
    \/ \E r \in Generators, created_at \in 0..MaxTicks, expires_at \in 0..MaxTicks :
          Construct(r, created_at, expires_at)
    \/ \E r \in Requests, code \in PlainArgs : HashCode(r, code)
    \/ \E r \in Generators, plain_code \in PlainArgs, hashed_code \in HashArgs :
          VerifyCode(r, plain_code, hashed_code)
    \/ \E r \in Requests : Return(r)

SpecGen == Init /\ [][NextGen]_vars

(* ------------------ the client and the provider's answers ------------- *)

\* a non-2xx answer with an empty object as body
ErrorReply(status) ==
    [kind |-> "http", status |-> status, body |-> EmptyBody, request_id |-> ""]

\* bodies of error answers: the four message fields in their combinations,
\* an "error" object without message, "error" as a string (with an
\* error_description beside it) or null, and a JSON array
ErrorBodies ==
    { [EmptyBody EXCEPT !.error = "object", !.error_message = "e1",
                        !.message = "m2", !.error_description = "d3",
                        !.details = "x4"],
      [EmptyBody EXCEPT !.message = "m2", !.error_description = "d3",
                        !.details = "x4"],
      [EmptyBody EXCEPT !.error_description = "d3", !.details = "x4"],
      [EmptyBody EXCEPT !.details = "x4"],
      [EmptyBody EXCEPT !.error = "object", !.details = "x4"],
      [EmptyBody EXCEPT !.error = "string", !.error_description = "d3"],
      [EmptyBody EXCEPT !.error = "null"],
      [EmptyBody EXCEPT !.shape = "array"] }

\* the statuses of error answers: those with a text of their own, two 5xx,
\* and two with the generic text
ErrorStatuses == {400, 401, 403, 404, 429, 500, 503, 302, 418}

\* what one HTTP exchange with the provider can give
Replies ==
    Responses
        \cup {ErrorReply(status) : status \in ErrorStatuses}
        \cup {[ErrorReply(400) EXCEPT !.body = body] : body \in ErrorBodies}
        \cup {[ErrorReply(503) EXCEPT !.body = body] :
                 body \in {b \in ErrorBodies : b.error = "string"}}
        \cup {[kind |-> "http", status |-> 202,
               body |-> [EmptyBody EXCEPT !.shape = "array"],
               request_id |-> "req-1"]}

\* step 3 when the post times out
AttemptTimeout(d, has_total) ==
    /\ disp[d].pc = "send"
    /\ disp[d].sender \in {None, "azure"}
    /\ disp' = [disp EXCEPT ![d] =
                  send_email([disp[d] EXCEPT !.sender = "azure"],
                             TimedOut(has_total))]
    /\ UNCHANGED <<now, table, issued, req>>

\* one exchange of d's call completes, with an answer, a timeout or a
\* network error
Exchange(d) ==
    \/ \E resp \in Replies : Attempt(d, resp)
    \/ \E has_total \in BOOLEAN : AttemptTimeout(d, has_total)
    \/ MockAttempt(d)

NextClient ==
    \/ \E d \in Dispatchers, code_type \in AuthCodeType :
          Generate(d, "u1", code_type, "ok")
    \/ \E d \in Dispatchers : Render(d, TRUE)
    \/ \E d \in Dispatchers, resp \in Replies : Attempt(d, resp)
    \/ \E d \in Dispatchers, has_total \in BOOLEAN : AttemptTimeout(d, has_total)
    \/ \E d \in Dispatchers : MockAttempt(d)
    \/ \E d \in Dispatchers : Finish(d)

SpecClient == Init /\ [][NextClient]_vars

\* every exchange that was started completes
FairClient == SpecClient /\ \A d \in Dispatchers : WF_vars(Exchange(d))

(* ----------------------- the signing of a request --------------------- *)

\* the inputs of _generate_auth_headers: the method, the url as urlparse
\* splits it, the body, and the base64 text of the access key
Methods == {"POST", "GET"}
Urls ==
    { [netloc |-> "acs.example.com", path |-> "/emails:send",
       query |-> "api-version=2023-03-31"],
      [netloc |-> "acs.example.com", path |-> "/emails:send", query |-> ""],
      [netloc |-> "other.example.com", path |-> "/emails:send",
       query |-> "api-version=2023-03-31"] }
Bodies == {"{}", "{\"subject\": \"a\"}", "{\"subject\": \"b\"}"}
ApiKeys == {"a2V5MQ==", "a2V5Mg=="}

\* utc_now.strftime('%a, %d %b %Y %H:%M:%S GMT') of the clock reading
strftime(clock) == <<"GMT", clock>>

\* base64.b64encode(hashlib.sha256(body).digest()).decode()
content_hash_b64(body) == <<"base64", <<"sha256", body>>>>

\* base64.b64decode of the access key
b64decode(text) ==
    IF text = "a2V5MQ==" THEN "key1"
    ELSE IF text = "a2V5Mg==" THEN "key2"
    ELSE "binascii.Error"

\* base64.b64encode(hmac.new(key, message, hashlib.sha256).digest()).decode()
signature_b64(key, message) == <<"base64", <<"hmac-sha256", key, message>>>>

\* parsed_url.path + ('?' + parsed_url.query if parsed_url.query else '')
path_and_query(url) ==
    IF url.query # "" THEN <<url.path, "?", url.query>> ELSE <<url.path>>

AuthScheme == "HMAC-SHA256 SignedHeaders=x-ms-date;host;x-ms-content-sha256&Signature="

\* _generate_auth_headers at the clock reading utc_now; texts are kept as
\* the sequences of their parts
BadSignatureOmitsHost(method, url, body, utc_now, api_key) ==
    LET utc_string == strftime(utc_now)
        string_to_sign == <<method, "\n", path_and_query(url), "\n",
                            utc_string, ";", content_hash_b64(body)>>
    IN  [Authorization |->
            <<AuthScheme, signature_b64(b64decode(api_key), string_to_sign)>>,
         x_ms_date |-> utc_string,
         x_ms_content_sha256 |-> content_hash_b64(body),
         Host |-> url.netloc]

_generate_auth_headers(method, url, body, utc_now, api_key) ==
    LET utc_string == strftime(utc_now)
        string_to_sign == <<method, "\n", path_and_query(url), "\n",
                            utc_string, ";", url.netloc, ";",
                            content_hash_b64(body)>>
    IN  [Authorization |->
            <<AuthScheme, signature_b64(b64decode(api_key), string_to_sign)>>,
         x_ms_date |-> utc_string,
         x_ms_content_sha256 |-> content_hash_b64(body),
         Host |-> url.netloc]

\* _generate_auth_headers is called; the call's inputs and headers are kept
SignRequest(d, method, url, body, api_key) ==
    /\ disp[d].pc = "idle"
    /\ disp' = [disp EXCEPT ![d] =
                  [IdleDisp EXCEPT
                      !.pc = "done", !.outcome = "signed",
                      !.signing = <<[method |-> method, url |-> url,
                                     body |-> body, utc_now |-> now,
                                     api_key |-> api_key,
                                     headers |->
                                        _generate_auth_headers(method, url, body,
                                                               now, api_key)]>>]]
    /\ UNCHANGED <<now, table, issued, req>>

NextSign ==
    \/ Tick
    \/ \E d \in Dispatchers, method \in Methods, url \in Urls, body \in Bodies,
          api_key \in ApiKeys : SignRequest(d, method, url, body, api_key)
    \/ \E d \in Dispatchers : Finish(d)

SpecSign == Init /\ [][NextSign]_vars

(* ------------------ the characters of a generated code ---------------- *)

\* string.ascii_lowercase, string.ascii_uppercase, string.digits
ascii_lowercase ==
    {"a", "b", "c", "d", "e", "f", "g", "h", "i", "j", "k", "l", "m",
     "n", "o", "p", "q", "r", "s", "t", "u", "v", "w", "x", "y", "z"}
ascii_uppercase ==
    {"A", "B", "C", "D", "E", "F", "G", "H", "I", "J", "K", "L", "M",
     "N", "O", "P", "Q", "R", "S", "T", "U", "V", "W", "X", "Y", "Z"}
digits == {"0", "1", "2", "3", "4", "5", "6", "7", "8", "9"}
ascii_letters == ascii_lowercase \cup ascii_uppercase

\* the alphabet _generate_secure_code draws from
BadAlphabetWithPunctuation == ascii_letters \cup digits \cup {"-", "_"}
alphabet == ascii_letters \cup digits

\* the number of characters _generate_secure_code draws
code_range == CodeLength

\* _generate_secure_code is entered
DrawBegin(r) ==
    /\ req[r].pc = "idle"
    /\ req' = [req EXCEPT ![r] =
                 [IdleReq EXCEPT !.pc = "draw", !.kind = "secure_code"]]
    /\ UNCHANGED <<now, table, issued, disp>>

\* one secrets.choice(alphabet) of the generator expression; the model keeps
\* the number of characters drawn and the last of them
DrawChar(r, ch) ==
    /\ req[r].pc = "draw"
    /\ req[r].drawn < code_range
    /\ req' = [req EXCEPT ![r] =
                 [req[r] EXCEPT !.drawn = req[r].drawn + 1, !.last = ch]]
    /\ UNCHANGED <<now, table, issued, disp>>

\* the range is exhausted: the joined characters are returned
DrawEnd(r) ==
    /\ req[r].pc = "draw"
    /\ req[r].drawn = code_range
    /\ req' = [req EXCEPT ![r] = [req[r] EXCEPT !.pc = "done", !.ok = TRUE]]
    /\ UNCHANGED <<now, table, issued, disp>>

NextCode ==
    \/ \E r \in Generators : DrawBegin(r)
    \/ \E r \in Generators, ch \in alphabet : DrawChar(r, ch)
    \/ \E r \in Generators : DrawEnd(r)
    \/ \E r \in Generators : Return(r)

SpecCode == Init /\ [][NextCode]_vars

(* --------------- several codes under all the operations --------------- *)

\* One request goes through invalidate_code / invalidate_code_by_id in its
\* two repository calls; MarkCodeAsUsed is the write of any other request,
\* at any moment; both sweeps and generate_code run next to them

\* delete_used_codes_older_than_hours with the retention of the cleanup
CleanupUsed ==
    /\ OldUsedIds(table, now, UsedRetentionHours) # {}
    /\ table' = delete_used_codes_older_than_hours(table, now, UsedRetentionHours)
    /\ UNCHANGED <<now, issued, req, disp>>

\* the plaintexts and ids of the rows there can be
RowCodes == 1..MaxRows

NextRows ==
    \/ ElapseMinutes
    \/ ElapseDay
    \/ \E code_type \in AuthCodeType : GenerateCodes("u1", code_type)
    \/ \E code_id \in RowCodes : MarkCodeAsUsed(code_id)
    \/ CleanupExpired
    \/ CleanupUsed
    \/ \E r \in Redeemers, code \in RowCodes, code_type \in AuthCodeType :
          Invalidate(r, code, code_type)
    \/ \E r \in Redeemers, code_id \in RowCodes : InvalidateById(r, code_id)
    \/ \E r \in Redeemers : MarkUsed(r)
    \/ \E r \in Redeemers : Return(r)

SpecRows == Init /\ [][NextRows]_vars

(* ------------------- validate_code called on its own ------------------ *)

MsgValidationFailed == "Code validation failed: Invalid code_type provided"
MsgUserValidationFailed ==
    "User code validation failed: Code validation failed: Invalid code_type provided"

\* the answer of a lookup: the AuthCode returned, or None
Answered(rec, auth_code) ==
    [rec EXCEPT !.pc = "done", !.ok = auth_code # NoAuthCode,
                !.id = auth_code.id, !.user = auth_code.user_id,
                !.hashed = auth_code.code,
                !.created_at = IF auth_code = NoAuthCode THEN 0
                               ELSE auth_code.created_at,
                !.expires_at = IF auth_code = NoAuthCode THEN 0
                               ELSE auth_code.expires_at]

\* AuthCodeService.validate_code(code, code_type): an empty code returns None,
\* a value that is no AuthCodeType raises, else the select and the checks
BadValidateConsumes(r, code, code_type) ==
    /\ req[r].pc = "idle"
    /\ LET rec == [IdleReq EXCEPT !.kind = "validate", !.code = code,
                                  !.type = code_type]
           auth_code == validate_code(table, now, code, code_type)
       IN  /\ req' = [req EXCEPT ![r] =
                        IF code # EmptyCode /\ code_type \notin AuthCodeType
                        THEN [rec EXCEPT !.pc = "done",
                                         !.message = MsgValidationFailed]
                        ELSE Answered(rec, auth_code)]
           /\ table' = IF code_type \in AuthCodeType /\ auth_code # NoAuthCode
                       THEN mark_code_as_used(table, auth_code.id, now)
                       ELSE table
    /\ UNCHANGED <<now, issued, disp>>

Validate(r, code, code_type) ==
    /\ req[r].pc = "idle"
    /\ LET rec == [IdleReq EXCEPT !.kind = "validate", !.code = code,
                                  !.type = code_type]
       IN  req' = [req EXCEPT ![r] =
                     IF code # EmptyCode /\ code_type \notin AuthCodeType
                     THEN [rec EXCEPT !.pc = "done",
                                      !.message = MsgValidationFailed]
                     ELSE Answered(rec, validate_code(table, now, code,
                                                      code_type))]
    /\ UNCHANGED <<now, table, issued, disp>>

\* AuthCodeService.is_code_valid_for_user(code, code_type, user_id):
\* validate_code, then the row's user_id is compared with the one given
IsCodeValidForUser(r, code, code_type, user_id) ==
    /\ req[r].pc = "idle"
    /\ LET rec == [IdleReq EXCEPT !.kind = "valid_for_user", !.code = code,
                                  !.type = code_type, !.user = user_id]
           auth_code == validate_code(table, now, code, code_type)
       IN  req' = [req EXCEPT ![r] =
                     IF code # EmptyCode /\ code_type \notin AuthCodeType
                     THEN [rec EXCEPT !.pc = "done",
                                      !.message = MsgUserValidationFailed]
                     ELSE [rec EXCEPT !.pc = "done", !.id = auth_code.id,
                                      !.ok = /\ auth_code # NoAuthCode
                                             /\ auth_code.user_id = user_id]]
    /\ UNCHANGED <<now, table, issued, disp>>

\* the users a caller asks about; the codes are those of "u1"
ExpectedUsers == {"u1", "u2"}

\* lookups next to everything that changes a row: generate_code, the writes
\* of invalidate_code, the expiry and its sweep
NextLookup ==
    \/ Tick
    \/ CleanupExpired
    \/ \E code_type \in AuthCodeType : GenerateCodes("u1", code_type)
    \/ \E r \in Redeemers, code \in 0..MaxRows, code_type \in TypeInputs :
          Validate(r, code, code_type)
    \/ \E r \in Redeemers, code \in 0..MaxRows, code_type \in TypeInputs,
          user_id \in ExpectedUsers :
          IsCodeValidForUser(r, code, code_type, user_id)
    \/ \E r \in Redeemers, code \in RowCodes, code_type \in AuthCodeType :
          Invalidate(r, code, code_type)
    \/ \E r \in Redeemers : MarkUsed(r)
    \/ \E code_id \in RowCodes : MarkCodeAsUsed(code_id)
    \/ \E r \in Redeemers : Return(r)

SpecLookup == Init /\ [][NextLookup]_vars

(* ------------------------------- claims ------------------------------- *)

\* a plaintext that generate_code never returned
UnknownCode == MaxCodes + 1

\* C1: no transition returns a code to Active: is_used, once true, stays
\* true while the row exists, and once validate_code rejects an issued code
\* (used, expired, swept or of the other type) it rejects it in the next
\* state too, whatever operation is taken
NoReturnToActive ==
    [][ /\ \A i \in DOMAIN table \cap DOMAIN table' :
              table[i].is_used => table'[i].is_used
        /\ \A c \in 1..issued, t \in AuthCodeType :
              validate_code(table, now, c, t) = NoAuthCode
                 => validate_code(table', now', c, t) = NoAuthCode ]_vars

\* C1 witness: a used row is still in the table after its expiry, and a
\* validate-code request has been refused
UsedRowRefused ==
    /\ \E i \in DOMAIN table : table[i].is_used /\ now > table[i].expires_at
    /\ \E r \in Requests : /\ req[r].pc = "done"
                           /\ req[r].kind = "endpoint"
                           /\ req[r].message = MsgInvalid

\* C2: of two validate-code requests on the same code, at most one is
\* answered valid=true
AtMostOneWinner ==
    \A r1, r2 \in Requests :
        ( /\ r1 # r2
          /\ req[r1].pc = "done" /\ req[r1].kind = "endpoint" /\ req[r1].ok
          /\ req[r2].pc = "done" /\ req[r2].kind = "endpoint" /\ req[r2].ok )
        => req[r1].id # req[r2].id

\* a request for which invalidate_code has returned True
Invalidated(r) ==
    /\ req[r].pc = "done"
    /\ req[r].kind \in {"endpoint", "invalidate"}
    /\ req[r].ok

\* C3: once invalidate_code(code, type) has returned True, on its own or in
\* a validate-code request answered valid=true, validate_code(code, type)
\* finds nothing and a validate-code request that starts for the code is
\* answered valid=false
InvalidatedStaysInvalid ==
    [][ \A r \in Requests : Invalidated(r) =>
           /\ validate_code(table, now, req[r].code, req[r].type) = NoAuthCode
           /\ validate_code(table', now', req[r].code, req[r].type) = NoAuthCode
           /\ \A r2 \in Requests \ {r} :
                 EndpointValidate(r2, req[r].code, req[r].type)
                    => req'[r2].pc = "done" /\ ~req'[r2].ok ]_vars

\* C3 witness: one request has invalidated a code and a later
\* validate-code request was refused
InvalidatedThenRefused ==
    \E r, r2 \in Requests :
        /\ Invalidated(r)
        /\ req[r2].pc = "done" /\ req[r2].kind = "endpoint"
        /\ req[r2].message = MsgInvalid
        /\ \E i \in DOMAIN table : table[i].is_used /\ table[i].used_at < now

\* C4 as stated: validate(code, type) right after code = generate(userId,
\* type) returns the new row with user_id equal to userId
ValidateAfterGenerateSameUser ==
    [][ \A u \in UserInputs, t \in AuthCodeType :
           (GenerateCode(u, t, "ok") /\ issued' # issued) =>
              LET auth_code == validate_code(table', now', issued', t)
              IN  /\ auth_code # NoAuthCode
                  /\ auth_code.id = issued'
                  /\ auth_code.user_id = u
                  /\ auth_code.type = t ]_vars

\* C4 amended: validate(code, type) right after code = generate(userId,
\* type) returns the row that generate inserted, with the type given and
\* with user_id equal to userId stripped of surrounding whitespace
ValidateAfterGenerate ==
    [][ \A u \in UserInputs, t \in AuthCodeType :
           (GenerateCode(u, t, "ok") /\ issued' # issued) =>
              LET auth_code == validate_code(table', now', issued', t)
              IN  /\ auth_code # NoAuthCode
                  /\ auth_code = table'[issued']
                  /\ auth_code.id = issued'
                  /\ auth_code.user_id = strip(u)
                  /\ auth_code.type = t ]_vars

\* C4 witness: a code generated for a padded user id is in the table,
\* valid, under the stripped id
PaddedUserStored ==
    \E i \in DOMAIN table :
        /\ table[i].user_id = "u2"
        /\ validate_code(table, now, i, table[i].type) = table[i]

\* C5: validate_code on an issued code whose expires_at has passed, whether
\* its row is still in the table or was swept, returns None, the value it
\* returns for a code that was never issued
ExpiredLooksUnknown ==
    \A c \in 1..issued, t \in AuthCodeType :
        (c \notin DOMAIN table \/ now > table[c].expires_at) =>
           /\ validate_code(table, now, c, t) = NoAuthCode
           /\ validate_code(table, now, c, t)
                 = validate_code(table, now, UnknownCode, t)

\* C5 witness: an unused row is in the table after its expiry
ExpiredRowPresent ==
    \E i \in DOMAIN table : ~table[i].is_used /\ now > table[i].expires_at

\* C6 as stated: validate_code returns a row, and is_valid holds of it, iff
\* the row is unused and now < expires_at
ValidIffStrictlyBefore ==
    \A i \in DOMAIN table :
        /\ (validate_code(table, now, i, table[i].type) # NoAuthCode)
              <=> (~table[i].is_used /\ now < table[i].expires_at)
        /\ is_valid(table[i], now)
              <=> (~table[i].is_used /\ now < table[i].expires_at)

\* C6 amended: validate_code returns a row, and is_valid holds of it, iff
\* the row is unused and now <= expires_at: a code is still valid at the
\* instant now = expires_at and expired only after it
ValidIffNotAfter ==
    \A i \in DOMAIN table :
        /\ (validate_code(table, now, i, table[i].type) # NoAuthCode)
              <=> (~table[i].is_used /\ now <= table[i].expires_at)
        /\ is_valid(table[i], now)
              <=> (~table[i].is_used /\ now <= table[i].expires_at)

\* C6 witness: the clock stands exactly at the expires_at of an unused row
AtExpiryInstant ==
    \E i \in DOMAIN table : ~table[i].is_used /\ now = table[i].expires_at

\* the send of the call failed at the provider: a 4xx answer, or a 5xx
\* answer or network error on the last attempt
ProviderFailed(d) ==
    /\ disp[d].pc = "done"
    /\ disp[d].sender = "azure"
    /\ disp[d].attempt > 0
    /\ ~(200 <= disp[d].status /\ disp[d].status < 300)

\* C7: when the provider fails the send, the code generated in the call is
\* invalidated (validate_code on it returns None once the call is over) and
\* the caller gets a failure result, with the rate-limit text for a 429
ProviderFailureCompensated ==
    \A d \in Dispatchers : ProviderFailed(d) =>
        /\ validate_code(table, now, disp[d].code, disp[d].type) = NoAuthCode
        /\ disp[d].outcome = "returned" /\ ~disp[d].success
        /\ disp[d].status = 429 => disp[d].detail = MsgRateLimit

\* C8: send_confirmation_email / send_password_reset_email never raise for
\* a provider failure: the call ends by returning a result
NeverRaisesForProviderFailure ==
    \A d \in Dispatchers : ProviderFailed(d) => disp[d].outcome # "raised"

\* the sender returned an AzureResponse with success=False
SenderReturnedFailure(d) ==
    /\ disp[d].pc \in {"comp", "comp_mark", "done"}
    /\ disp[d].sender = "stub"
    /\ disp[d].status = 429

\* C9: when the sender returns success=False, invalidate_code is called
\* exactly once, with the plaintext and the type of this call, and the call
\* returns an EmailResponse with success=False whether or not
\* invalidate_code raised
FailureResultCompensatesOnce ==
    \A d \in Dispatchers : SenderReturnedFailure(d) =>
        /\ disp[d].inv_calls = << <<disp[d].code, disp[d].type>> >>
        /\ disp[d].code = disp[d].id /\ disp[d].id \in 1..issued
        /\ disp[d].pc = "done" =>
              /\ disp[d].outcome = "returned"
              /\ ~disp[d].success
              /\ disp[d].message = FailedMessage(disp[d].type)
              /\ disp[d].detail = "Rate limit exceeded"

\* C9 witness: the call is over, the sender had returned success=False and
\* the compensating invalidate_code had raised
FailureReturnedAfterCleanupRaised ==
    \E d \in Dispatchers :
        /\ SenderReturnedFailure(d)
        /\ disp[d].pc = "done"
        /\ disp[d].inv_raised

\* the provider's 2xx answer whose body carries id "abc"
AcceptedAbc ==
    [kind |-> "http", status |-> 202, body |-> [EmptyBody EXCEPT !.id = "abc"],
     request_id |-> "req-1"]

\* a validate-code request marks the row of d's code used in this step
Redeemed(d) ==
    \E r \in Requests :
        /\ req[r].pc = "mark" /\ req[r].id = disp[d].id
        /\ req'[r].pc = "done"

\* C10: a send answered 2xx with body id "abc" ends the call with success
\* and message_id "abc"; a successful call calls no invalidate_code and
\* leaves the table alone; and after it the code stays valid in every step
\* that neither redeems it through validate-code nor passes its expiry
SuccessKeepsCode ==
    [][ \A d \in Dispatchers :
          /\ Attempt(d, AcceptedAbc) =>
                /\ disp'[d].pc = "done" /\ disp'[d].outcome = "returned"
                /\ disp'[d].success /\ disp'[d].message_id = "abc"
          /\ (disp[d].pc = "send" /\ disp'[d].pc = "done" /\ disp'[d].success) =>
                /\ table' = table
                /\ disp'[d].inv_calls = <<>>
          /\ ( /\ disp[d].pc = "done" /\ disp[d].success
               /\ validate_code(table, now, disp[d].code, disp[d].type) # NoAuthCode ) =>
                \/ validate_code(table', now', disp[d].code, disp[d].type) # NoAuthCode
                \/ Redeemed(d)
                \/ now' > table[disp[d].id].expires_at ]_vars

\* C10 witness: the call returned success with message_id "abc" and, a
\* clock tick later, the code is still valid
SuccessAbcStillValid ==
    \E d \in Dispatchers :
        /\ disp[d].pc = "done" /\ disp[d].success
        /\ disp[d].message_id = "abc"
        /\ disp[d].inv_calls = <<>>
        /\ disp[d].id \in DOMAIN table
        /\ now > table[disp[d].id].created_at
        /\ validate_code(table, now, disp[d].code, disp[d].type) # NoAuthCode

(* ------------------------- claims: the retry loop --------------------- *)

\* the number of times the step op occurs in a trace
Count(trace, op) == Cardinality({i \in DOMAIN trace : trace[i] = op})

\* s is an initial part of t
IsPrefix(s, t) == Len(s) <= Len(t) /\ s = SubSeq(t, 1, Len(s))

\* the answers of the provider by class
Accepted == {resp \in Responses : resp.kind = "http" /\ 200 <= resp.status
                                  /\ resp.status < 300}
ClientErrors == {resp \in Responses : resp.kind = "http" /\ 400 <= resp.status
                                      /\ resp.status < 500}

\* the error text AzureClientError carries for a failed exchange
ErrorOf(resp) ==
    CASE resp.kind = "network" -> "Request to Azure Communication Services failed"
      [] resp.status = 404     -> "Resource not found"
      [] resp.status = 429     -> "Rate limit exceeded - too many requests"
      [] resp.status = 503     -> "Azure Communication Services internal error"
      [] OTHER                 -> ""

FullSchedule ==
    <<OpSign, OpPost, OpSleep(1), OpSign, OpPost, OpSleep(2), OpSign, OpPost>>

\* C13: the waits between attempts are 1s * 2^attempt: 1s after the first
\* failed attempt and 2s after the second; the steps of a call come strictly
\* one after the other, attempt, wait, attempt, wait, attempt, and no wait
\* follows the final attempt
BackoffSchedule ==
    \A d \in Dispatchers : disp[d].sender = "azure" =>
        /\ IsPrefix(disp[d].trace, FullSchedule)
        /\ IsPrefix(disp[d].waits, <<1, 2>>)
        /\ Len(disp[d].waits) = Count(disp[d].trace, OpSleep(1))
                                   + Count(disp[d].trace, OpSleep(2))
        /\ disp[d].pc = "send" =>
              /\ disp[d].trace[Len(disp[d].trace)].op = "sleep"
              /\ Len(disp[d].waits) = disp[d].attempt
        /\ disp[d].pc = "done" =>
              disp[d].trace[Len(disp[d].trace)] = OpPost

\* C13 witness: all 3 attempts failed, with waits of 1s and 2s between them
ThreeAttemptsTwoWaits ==
    \E d \in Dispatchers :
        /\ disp[d].pc = "done" /\ disp[d].sender = "azure"
        /\ disp[d].outcome = "raised"
        /\ disp[d].trace = FullSchedule
        /\ disp[d].waits = <<1, 2>>

MockBypassesSigningAndNetwork ==
    /\ \A d \in Dispatchers : disp[d].sender = "azure_mock" =>
          /\ disp[d].pc = "done" /\ disp[d].outcome = "returned"
          /\ disp[d].success /\ disp[d].message_id = "mock_msg"
          /\ disp[d].attempt = 1
          /\ Count(disp[d].trace, OpSign) = 0
          /\ Count(disp[d].trace, OpPost) = 0
    /\ \A resp \in Responses :
          /\ _make_azure_request(TRUE, resp).ops = <<>>
          /\ _make_azure_request(TRUE, resp).success

\* C15 witness: a call in mock mode has returned
MockCallReturned ==
    \E d \in Dispatchers :
        /\ disp[d].pc = "done" /\ disp[d].sender = "azure_mock"
        /\ disp[d].success

(* ------------------------ claims: invalidation ------------------------ *)

\* a call of invalidate_code by request r in this step, for code c of type t:
\* on its own, or as the second half of a validate-code request
InvalidateCalled(r, c, t) ==
    \/ Invalidate(r, c, t)
    \/ EndpointInvalidate(r) /\ req[r].code = c /\ req[r].type = t

\* the lookup of invalidate_code: a code that is not valid returns False
\* and nothing is modified; a valid one goes on to the write on its row
LookupDecides(r) ==
    \A c \in CodeInputs, t \in AuthCodeType :
        ( /\ req'[r] # req[r]
          /\ \/ req[r].pc = "idle" /\ req'[r].kind = "invalidate"
             \/ req[r].pc = "inv" /\ req[r].code = c /\ req[r].type = t
          /\ req'[r].pc = "mark" => (req'[r].code = c /\ req'[r].type = t)
          /\ InvalidateCalled(r, c, t) ) =>
           /\ table' = table
           /\ IF validate_code(table, now, c, t) = NoAuthCode
              THEN req'[r].pc = "done" /\ ~req'[r].ok
              ELSE /\ req'[r].pc = "mark"
                   /\ req'[r].id = validate_code(table, now, c, t).id

\* the write of invalidate_code of request r happens in this step
InvalidateWrites(r) ==
    /\ req[r].pc = "mark"
    /\ req[r].kind \in {"endpoint", "invalidate"}
    /\ req'[r].pc = "done"

\* the step changes at most the row code_id, and marks that one used
OnlyMarks(code_id) ==
    /\ DOMAIN table' = DOMAIN table
    /\ code_id \in DOMAIN table'
    /\ table'[code_id].is_used
    /\ \A j \in DOMAIN table \ {code_id} : table'[j] = table[j]

\* C16 as stated: invalidate_code(code, type) returns True iff a row of the
\* type matching the code was valid when it was called, and then that row
\* is marked used; when it returns False no row is modified
InvalidateTrueIffValidWhenCalled ==
    [][ \A r \in Requests :
          /\ LookupDecides(r)
          /\ InvalidateWrites(r) => req'[r].ok /\ OnlyMarks(req[r].id) ]_vars

\* C16 amended: invalidate_code(code, type) returns True iff a row of the
\* type matching the code was valid at its lookup and is still in the table
\* at its write (a sweep may have removed it in between: then it returns
\* False); in exactly that case the row is marked used; when it returns
\* False no row is modified
InvalidateTrueIffMarked ==
    [][ \A r \in Requests :
          /\ LookupDecides(r)
          /\ InvalidateWrites(r) =>
                /\ req'[r].ok <=> req[r].id \in DOMAIN table
                /\ req'[r].ok => OnlyMarks(req[r].id)
                /\ ~req'[r].ok => table' = table ]_vars

\* C16 witness: invalidate_code, called on its own, has returned True and
\* its row is marked used
InvalidateMarkedRow ==
    \E r \in Requests :
        /\ req[r].pc = "done" /\ req[r].kind = "invalidate" /\ req[r].ok
        /\ req[r].id \in DOMAIN table
        /\ table[req[r].id].is_used

\* C17: invalidate_code_by_id on a row that is already used returns True
\* and writes nothing: the table, with is_used and used_at, stays as it was
ByIdOnUsedIsNoOp ==
    [][ \A r \in Requests, i \in 1..issued :
          ( /\ InvalidateById(r, i)
            /\ i \in DOMAIN table
            /\ table[i].is_used ) =>
              /\ req'[r].pc = "done" /\ req'[r].kind = "by_id"
              /\ req'[r].ok
              /\ table' = table ]_vars

\* C17 witness: invalidate_code_by_id has returned True on a row that a
\* validate-code request had marked used before the clock moved on
ByIdReturnedOnUsedRow ==
    \E r, r2 \in Requests :
        /\ req[r].pc = "done" /\ req[r].kind = "by_id" /\ req[r].ok
        /\ req[r2].pc = "done" /\ req[r2].kind = "endpoint" /\ req[r2].ok
        /\ req[r].id = req[r2].id
        /\ req[r].id \in DOMAIN table
        /\ table[req[r].id].used_at < now

\* C18: used_at is null exactly when is_used is false, and used_at, once
\* set, never changes while the row exists
UsedAtSetOnce ==
    [][ /\ \A i \in DOMAIN table : (table[i].used_at = NoTime) <=> ~table[i].is_used
        /\ \A i \in DOMAIN table \cap DOMAIN table' :
              table[i].used_at # NoTime => table'[i].used_at = table[i].used_at ]_vars

(* --------------------------- claims: the sweeps ----------------------- *)

\* the step removes exactly the rows of gone and leaves the others as they are
RemovesExactly(gone) ==
    /\ DOMAIN table' = DOMAIN table \ gone
    /\ \A i \in DOMAIN table' : table'[i] = table[i]

\* C19: cleanup_expired_codes removes exactly the rows with expires_at <
\* now, used or not, returns their number, and leaves every other row, the
\* used and unexpired ones too, in the table unchanged
CleanupExpiredExact ==
    [][ \A r \in Requests : CleanupExpiredCodes(r) =>
          LET gone == {i \in DOMAIN table : table[i].expires_at < now}
          IN  /\ RemovesExactly(gone)
              /\ req'[r].pc = "done"
              /\ req'[r].expired_deleted = Cardinality(gone) ]_vars

\* C19 witness: the sweep has removed a row and a used row that is not
\* expired is still in the table
ExpiredSweptUsedKept ==
    \E r \in Requests :
        /\ req[r].pc = "done" /\ req[r].kind = "cleanup_expired"
        /\ req[r].expired_deleted >= 1
        /\ \E i \in DOMAIN table : table[i].is_used /\ table[i].expires_at >= now

\* C20: the comprehensive cleanup deletes the expired rows first, then the
\* used rows with used_at more than 24 hours old, and reports total_deleted
\* = expired_deleted + old_used_deleted, each the number of rows its delete
\* removed: a row that is expired and old-used goes with the first delete
\* and is counted once
ComprehensiveCleanupCounts ==
    [][ \A r \in Requests :
          /\ CleanupAllExpired(r) =>
                LET gone == {i \in DOMAIN table : table[i].expires_at < now}
                IN  /\ RemovesExactly(gone)
                    /\ req'[r].pc = "sweep_used"
                    /\ req'[r].expired_deleted = Cardinality(gone)
          /\ CleanupAllUsed(r) =>
                LET gone == {i \in DOMAIN table :
                                /\ table[i].is_used
                                /\ table[i].used_at < now - 24 * 60}
                IN  /\ req[r].kind = "cleanup_all"
                    /\ RemovesExactly(gone)
                    /\ req'[r].pc = "done"
                    /\ req'[r].expired_deleted = req[r].expired_deleted
                    /\ req'[r].old_used_deleted = Cardinality(gone)
                    /\ req'[r].total_deleted
                          = req[r].expired_deleted + Cardinality(gone) ]_vars

\* C20 witness: a comprehensive cleanup has removed one expired row with
\* its first delete and one old used row with its second
BothDeletesRemoved ==
    \E r \in Requests :
        /\ req[r].pc = "done" /\ req[r].kind = "cleanup_all"
        /\ req[r].expired_deleted = 1
        /\ req[r].old_used_deleted = 1
        /\ req[r].total_deleted = 2

(* ------------------- claims: the validate-code answer ----------------- *)

\* C21: the answer of the validate-code endpoint for a rejected code is the
\* same whatever the reason: valid=false, no user_id, and the one message
\* "Authentication code is invalid, expired, or already used", also for a
\* request that lost a race between its validate and its invalidate step
RejectionIndistinguishable ==
    \A r \in Requests :
        (req[r].pc = "done" /\ req[r].kind = "endpoint" /\ ~req[r].ok) =>
            /\ req[r].user = ""
            /\ req[r].message = MsgInvalid

(* --------------------- claims: generate_code in steps ----------------- *)

\* C22: generate_code returns the plaintext only with the row in the store:
\* the step that ends a call with a plaintext leaves a row under the call's
\* id whose digest verifies that plaintext, and when the insert answers with
\* no data or raises, the call ends raised, with no plaintext
PlaintextOnlyAfterPersisted ==
    [][\A r \in Generators :
          (req[r].pc = "gen_store" /\ req'[r].pc = "done") =>
              /\ req'[r].ok =>
                    /\ req'[r].code # EmptyCode
                    /\ req'[r].id \in DOMAIN table'
                    /\ _verify_code(req'[r].code, table'[req'[r].id].code)
              /\ ~req'[r].ok => req'[r].code = EmptyCode
              /\ \A store \in {"nodata", "error"} :
                    GenStore(r, store) =>
                        /\ ~req'[r].ok
                        /\ req'[r].message # ""]_vars

PlaintextReturned ==
    \E r \in Generators :
        /\ req[r].pc = "done" /\ req[r].kind = "generate" /\ req[r].ok
        /\ req[r].id \in DOMAIN table

\* C25: generate_code given an empty or blank user id, or a type outside the
\* two code types, ends at once raised, with no plaintext, and leaves the
\* table as it was
MisuseRaisesAndInsertsNothing ==
    [][\A r \in Generators, user_id \in UserInputs, code_type \in TypeInputs :
          ((strip(user_id) = "" \/ code_type \notin AuthCodeType)
              /\ req[r].pc = "idle" /\ req'[r].kind = "generate"
              /\ GenBegin(r, user_id, code_type)) =>
                  /\ req'[r].pc = "done"
                  /\ ~req'[r].ok
                  /\ req'[r].message \in {MsgEmptyUser, MsgInvalidType}
                  /\ req'[r].code = EmptyCode
                  /\ table' = table]_vars

MisuseRaised ==
    \E r \in Generators :
        /\ req[r].pc = "done" /\ req[r].kind = "generate"
        /\ req[r].message = MsgInvalidType

\* C26 as stated: every row generate_code wrote expires exactly the lifetime
\* after its created_at, and the constructor rejects expires_at <= created_at
ExpiresAtFixedOffset ==
    /\ \A i \in DOMAIN table :
          /\ table[i].expires_at > table[i].created_at
          /\ table[i].expires_at = table[i].created_at + ExpirationMinutes
    /\ \A r \in Generators :
          (req[r].pc = "done" /\ req[r].kind = "construct") =>
              (req[r].ok <=> req[r].expires_at > req[r].created_at)

\* C26 amended: expires_at is the lifetime after a second reading of the
\* clock, taken after the one for created_at: every row expires after its
\* created_at, at least the lifetime after it and no later than the lifetime
\* from now; the constructor rejects expires_at <= created_at
ExpiresLifetimeAfterSecondReading ==
    /\ \A i \in DOMAIN table :
          /\ table[i].expires_at > table[i].created_at
          /\ table[i].expires_at >= table[i].created_at + ExpirationMinutes
          /\ table[i].expires_at <= now + ExpirationMinutes
    /\ \A r \in Generators :
          /\ req[r].pc = "gen_store" =>
                /\ req[r].expires_at >= req[r].created_at + ExpirationMinutes
                /\ req[r].expires_at <= now + ExpirationMinutes
          /\ (req[r].pc = "done" /\ req[r].kind = "construct") =>
                (req[r].ok <=> req[r].expires_at > req[r].created_at)

ExpiryLaterThanOffset ==
    \E i \in DOMAIN table :
        table[i].expires_at > table[i].created_at + ExpirationMinutes

\* C29: the code field of every row generate_code wrote is a digest that
\* verifies the plaintext of the call, and is neither that plaintext nor the
\* placeholder of the AuthCode built in memory
PlaintextNeverPersisted ==
    /\ \A i \in DOMAIN table :
          /\ table[i].code \notin {Raw(p) : p \in PlainArgs \cup (1..issued)}
          /\ table[i].code # Raw(Placeholder)
    /\ \A r \in Generators :
          (req[r].pc = "done" /\ req[r].kind = "generate" /\ req[r].ok) =>
              /\ table[req[r].id].code = req[r].hashed
              /\ req[r].hashed # Raw(req[r].code)
              /\ req[r].hashed # Raw(Placeholder)
              /\ req[r].hashed.salt # 0
              /\ _verify_code(req[r].code, req[r].hashed)

DigestWritten ==
    \E r \in Generators :
        /\ req[r].pc = "done" /\ req[r].kind = "generate" /\ req[r].ok
        /\ table[req[r].id].code = _hash_code(req[r].code, req[r].id)

(* --------------------------- claims: the digests ---------------------- *)

\* hashed_code is a digest _hash_code made of plain_code
DigestOf(plain_code, hashed_code) ==
    hashed_code.salt # 0 /\ hashed_code = _hash_code(plain_code, hashed_code.salt)

\* the parts of C30 that hold whatever the plaintext: a digest verifies its
\* plaintext and no other, two digests of one plaintext differ
RoundTrip ==
    /\ \A r \in Requests :
          req[r].pc = "hashed" =>
              /\ DigestOf(req[r].code, req[r].hashed)
              /\ _verify_code(req[r].code, req[r].hashed)
              /\ \A q \in PlainArgs \ {req[r].code} :
                    ~_verify_code(q, req[r].hashed)
    /\ \A r1, r2 \in Requests :
          (r1 # r2 /\ req[r1].pc = "hashed" /\ req[r2].pc = "hashed"
              /\ req[r1].code = req[r2].code) =>
                  req[r1].hashed # req[r2].hashed
    /\ \A r \in Requests :
          (req[r].pc = "done" /\ req[r].kind = "verify") =>
              /\ DigestOf(req[r].code, req[r].hashed) => req[r].ok
              /\ (\E p \in (PlainArgs \cup (1..issued)) \ {req[r].code} :
                     DigestOf(p, req[r].hashed)) => ~req[r].ok

SendInvoked(d) ==
    /\ disp'[d] # IdleDisp
    /\ \/ disp'[d].attempt > disp[d].attempt
       \/ disp'[d].sender # disp[d].sender
       \/ disp'[d].trace # disp[d].trace

\* invalidate_code is called in this step of d's call
InvalidateInvoked(d) ==
    /\ disp'[d] # IdleDisp
    /\ disp'[d].inv_calls # disp[d].inv_calls

\* C23: a call runs generate_code, then the template, then the sender: the
\* template is reached only from a generate_code that stored the row, the
\* sender only after the template succeeded (a failed template ends the
\* call with no send), and invalidate_code is called only in the step in
\* which a send of the call has returned a failure, with the call's code
DispatchOrder ==
    [][\A d \in Dispatchers :
          /\ (disp'[d].pc = "render" /\ disp[d].pc # "render") =>
                /\ disp[d].pc = "idle"
                /\ disp'[d].id \in DOMAIN table' \ DOMAIN table
                /\ _verify_code(disp'[d].code, table'[disp'[d].id].code)
          /\ (disp'[d].pc = "send" /\ disp[d].pc # "send") =>
                /\ disp[d].pc = "render"
                /\ disp'[d].attempt = 0
          /\ Render(d, FALSE) =>
                /\ disp'[d].pc = "done"
                /\ disp'[d].outcome = "raised"
                /\ disp'[d].attempt = 0
          /\ SendInvoked(d) =>
                /\ disp[d].pc = "send"
                /\ disp[d].code # EmptyCode
                /\ disp[d].id \in 1..issued
          /\ InvalidateInvoked(d) =>
                /\ SendInvoked(d)
                /\ disp'[d].pc = "comp"
                /\ disp'[d].attempt >= 1
                /\ disp'[d].inv_calls = <<<<disp[d].code, disp[d].type>>>>
          /\ disp'[d].pc \in {"comp", "comp_mark"} =>
                Len(disp'[d].inv_calls) = 1]_vars

InvalidateAfterFailedSend ==
    \E d \in Dispatchers :
        /\ disp[d].pc = "comp"
        /\ disp[d].attempt >= 1
        /\ disp[d].inv_calls = <<<<disp[d].code, disp[d].type>>>>

FieldsFrozen ==
    [][table' # table =>
         /\ \A i \in DOMAIN table \cap DOMAIN table' :
               /\ table'[i].id = table[i].id
               /\ table'[i].code = table[i].code
               /\ table'[i].user_id = table[i].user_id
               /\ table'[i].type = table[i].type
               /\ table'[i].created_at = table[i].created_at
               /\ table'[i].expires_at = table[i].expires_at
         /\ (\E i \in DOMAIN table \cap DOMAIN table' : table'[i] # table[i]) =>
               \/ \E r \in Redeemers : MarkUsed(r)
               \/ \E code_id \in RowCodes : MarkCodeAsUsed(code_id)
         /\ DOMAIN table \ DOMAIN table' # {} =>
               \/ /\ CleanupExpired
                  /\ DOMAIN table \ DOMAIN table' = ExpiredIds(table, now)
               \/ /\ CleanupUsed
                  /\ DOMAIN table \ DOMAIN table' =
                        OldUsedIds(table, now, UsedRetentionHours)]_vars

MarkedRowKeptAfterSweep ==
    \E i \in DOMAIN table :
        /\ table[i].is_used
        /\ table[i].used_at > table[i].created_at
        /\ table[i].code = _hash_code(i, i)
        /\ table[i].expires_at = _calculate_expiration_time(table[i].created_at)
        /\ Cardinality(DOMAIN table) < issued

\* C28: the write of invalidate_code, of invalidate_code_by_id or of
\* mark_code_as_used for one code leaves every other row in the table with
\* its is_used and used_at, and validate_code answers for every other code
\* as before; the lookups of the two invalidations change no row
OtherCodesUntouched ==
    [][/\ table' # table =>
            \A i \in RowCodes :
               (\/ MarkCodeAsUsed(i)
                \/ \E r \in Redeemers : req[r].id = i /\ MarkUsed(r)) =>
                   \A j \in DOMAIN table \ {i} :
                      /\ j \in DOMAIN table'
                      /\ table'[j].is_used = table[j].is_used
                      /\ table'[j].used_at = table[j].used_at
                      /\ \A code_type \in AuthCodeType :
                            validate_code(table', now', j, code_type) =
                               validate_code(table, now, j, code_type)
       /\ \A r \in Redeemers :
            (req[r].pc = "idle" /\ req'[r].kind \in {"invalidate", "by_id"}) =>
                table' = table]_vars

OneMarkedOtherStillValid ==
    \E i, j \in DOMAIN table :
        /\ i # j
        /\ table[i].is_used /\ table[i].used_at = now
        /\ ~table[j].is_used
        /\ validate_code(table, now, j, table[j].type) = table[j]

(* -------------------- claims: the shape of a code --------------------- *)

\* the 62 letters and digits
Alphanumeric ==
    {"a", "b", "c", "d", "e", "f", "g", "h", "i", "j", "k", "l", "m",
     "n", "o", "p", "q", "r", "s", "t", "u", "v", "w", "x", "y", "z",
     "A", "B", "C", "D", "E", "F", "G", "H", "I", "J", "K", "L", "M",
     "N", "O", "P", "Q", "R", "S", "T", "U", "V", "W", "X", "Y", "Z",
     "0", "1", "2", "3", "4", "5", "6", "7", "8", "9"}

\* C31: every character _generate_secure_code draws is one of the 62
\* letters and digits, and the code it returns has exactly 32 of them
SecureCodeShape ==
    [][\A r \in Generators :
          /\ Cardinality(Alphanumeric) = 62
          /\ (req'[r].kind = "secure_code" /\ req'[r].drawn # req[r].drawn) =>
                /\ req'[r].drawn = req[r].drawn + 1
                /\ req'[r].last \in Alphanumeric
          /\ (req'[r].kind = "secure_code" /\ req'[r].pc = "done") =>
                req'[r].drawn = 32]_vars

SecureCodeReturned ==
    \E r \in Generators :
        /\ req[r].pc = "done" /\ req[r].kind = "secure_code"
        /\ req[r].drawn = 32 /\ req[r].last \in digits

(* --------------------- claims: the client's errors -------------------- *)

Present(text) == text # ""

\* the values a body carries under error.message, message,
\* error_description and details, in that order
Carried(body) ==
    IF body.shape # "object" THEN <<>>
    ELSE SelectSeq(<<IF body.error = "object" THEN body.error_message ELSE "",
                     body.message, body.error_description, body.details>>,
                   Present)

\* the statuses with a fixed text of their own, 500 standing for the 5xx
OwnTextStatuses == {400, 401, 403, 404, 429, 500}

\* C32: the error of a non-2xx answer carries the first of error.message,
\* message, error_description and details that the body has, and the fixed
\* text of the status when it has none; the fixed texts of 400, 401, 403,
\* 404, 429 and 5xx differ from each other and from the generic text, which
\* names the status
ErrorMessagePrecedence ==
    [][\A d \in Dispatchers :
          disp[d].pc = "send" =>
             \A resp \in Replies :
                (resp.kind = "http" /\ ~(200 <= resp.status /\ resp.status < 300)
                    /\ Attempt(d, resp)) =>
                   /\ disp'[d].errors[Len(disp'[d].errors)] =
                         IF Carried(resp.body) # <<>> THEN Head(Carried(resp.body))
                         ELSE StatusMessage(resp.status)
                   /\ \A s1, s2 \in OwnTextStatuses \cup {302, 418} :
                         s1 # s2 => StatusMessage(s1) # StatusMessage(s2)
                   /\ StatusMessage(503) = StatusMessage(500)]_vars

\* the outcome of a call that went through the sender: a success result, or
\* AzureClientError raised (which send_*_email reports as MsgAzureFailed)
ReturnedOrAzureClientError(d) ==
    \/ disp[d].outcome = "returned" /\ disp[d].success
    \/ disp[d].outcome = "raised" /\ disp[d].message = MsgAzureFailed

\* a call has at most 3 attempts and 2 waits behind it
SendBounded ==
    \A d \in Dispatchers :
        /\ disp[d].attempt <= 3
        /\ Len(disp[d].waits) <= 2
        /\ Count(disp[d].trace, OpPost) <= 3

\* a call that reached the sender ends
SendTerminates ==
    \A d \in Dispatchers : (disp[d].pc = "send") ~> (disp[d].pc = "done")

\* C39: when every exchange completes, a call of send ends, after at most 3
\* attempts and 2 waits, and it ends with a success result or with
\* AzureClientError raised
SendEndsReturnedOrRaised ==
    /\ SendTerminates
    /\ [](SendBounded
           /\ \A d \in Dispatchers :
                 (disp[d].pc = "done" /\ disp[d].attempt >= 1) =>
                     ReturnedOrAzureClientError(d))

(* -------------------------- claims: the signing ----------------------- *)

\* the string the claim has signed: method, newline, path and query,
\* newline, date;host;content hash
ClaimedStringToSign(call) ==
    <<call.method, "\n",
      IF call.url.query = "" THEN <<call.url.path>>
      ELSE <<call.url.path, "?", call.url.query>>,
      "\n", <<"GMT", call.utc_now>>, ";", call.url.netloc, ";",
      <<"base64", <<"sha256", call.body>>>> >>

\* the HMAC-SHA256 reference value of the Authorization header
ReferenceAuthorization(call) ==
    <<"HMAC-SHA256 SignedHeaders=x-ms-date;host;x-ms-content-sha256&Signature=",
      <<"base64", <<"hmac-sha256",
                    IF call.api_key = "a2V5MQ==" THEN "key1" ELSE "key2",
                    ClaimedStringToSign(call)>>>> >>

\* C33: the Authorization header of every signing is the reference value
\* for the call's method, path and query, host, body, timestamp and key, its
\* signature taken over method, newline, path and query, newline,
\* date;host;content hash; two signings of equal inputs have equal headers
SigningIsReference ==
    [][\A d \in Dispatchers :
          (disp'[d].outcome = "signed" /\ disp[d].pc = "idle") =>
             LET call == disp'[d].signing[1]
             IN  /\ call.headers.Authorization = ReferenceAuthorization(call)
                 /\ call.headers.Authorization[2][2][3] =
                       ClaimedStringToSign(call)
                 /\ \A method \in Methods, url \in Urls, body \in Bodies,
                       api_key \in ApiKeys :
                       (<<method, path_and_query(url), url.netloc, body, api_key>>
                           = <<call.method, path_and_query(call.url),
                               call.url.netloc, call.body, call.api_key>>) =>
                          _generate_auth_headers(method, url, body, call.utc_now,
                                                 api_key) = call.headers]_vars

SignedWithQuery ==
    \E d \in Dispatchers :
        /\ disp[d].outcome = "signed"
        /\ disp[d].signing[1].url.query # ""
        /\ disp[d].signing[1].utc_now > 0
        /\ disp[d].signing[1].headers.Authorization =
              ReferenceAuthorization(disp[d].signing[1])

(* ------------------ claims: what the sweeps may remove ---------------- *)

\* validate_code would hand out row i at this moment
ValidatesNow(i) ==
    /\ is_valid(table[i], now)
    /\ validate_code(table, now, table[i].code.plain, table[i].type) = table[i]

\* C34: a row that a step removes from the table (cleanup_expired_codes,
\* the sweep of used rows, get_service_stats, the health check) was used or
\* expired at that moment, and validate_code did not accept its code
OnlyInvalidCodesDeleted ==
    [][\A i \in DOMAIN table \ DOMAIN table' :
          /\ table[i].is_used \/ is_expired(table[i], now)
          /\ ~ValidatesNow(i)]_vars

\* the health check has removed an expired row and kept a row that is at
\* the last minute of its life
HealthCheckSweptBesideValid ==
    \E r \in Sweepers :
        /\ req[r].kind = "health_check"
        /\ \E i \in 1..issued : i \notin DOMAIN table
        /\ \E i \in DOMAIN table : table[i].expires_at = now /\ ValidatesNow(i)

(* --------------------- claims: a template that fails ------------------ *)

\* the call of d ended at the template step
TemplateFailed(d) ==
    /\ disp[d].pc = "done" /\ disp[d].outcome = "raised"
    /\ disp[d].message = MsgTemplateFailed

\* C35: when _compose_email fails after generate_code succeeded the call
\* raises EmailServiceError with no send attempted, no invalidate_code
\* called and the table left alone; after it the row of the call's code is
\* unused and the code stays valid in every step that neither redeems it
\* through validate-code nor passes its expiry
TemplateFailureKeepsCode ==
    [][ \A d \in Dispatchers :
          /\ (disp[d].pc = "render" /\ disp'[d].pc = "done") =>
                /\ table' = table
                /\ TemplateFailed(d)'
                /\ disp'[d].attempt = 0 /\ disp'[d].trace = <<>>
                /\ disp'[d].sender = None
                /\ disp'[d].inv_calls = <<>>
                /\ disp'[d].code = disp[d].code
          /\ TemplateFailed(d) =>
                /\ disp'[d] \in {disp[d], IdleDisp}
                /\ validate_code(table, now, disp[d].code, disp[d].type) # NoAuthCode =>
                      \/ /\ validate_code(table', now', disp[d].code, disp[d].type)
                               # NoAuthCode
                         /\ ~table'[disp[d].id].is_used
                      \/ Redeemed(d)
                      \/ now' > table[disp[d].id].expires_at ]_vars

\* the template failed and, a clock tick after the code was generated, the
\* code of the call is in the table, unused and valid
TemplateFailedCodeStillValid ==
    \E d \in Dispatchers :
        /\ TemplateFailed(d)
        /\ disp[d].attempt = 0 /\ disp[d].inv_calls = <<>>
        /\ disp[d].id \in DOMAIN table
        /\ ~table[disp[d].id].is_used
        /\ now > table[disp[d].id].created_at
        /\ validate_code(table, now, disp[d].code, disp[d].type) = table[disp[d].id]

(* --------------------- claims: invalidation by id --------------------- *)

\* the lookup of invalidate_code_by_id: an empty id or an id without a row
\* returns False and nothing is modified; the id of an unused row, expired
\* or not, goes on to the write on that row
ByIdLookupDecides(r) ==
    \A i \in 0..MaxCodes :
        (req[r].pc = "idle" /\ req'[r].kind = "by_id" /\ InvalidateById(r, i)) =>
           /\ table' = table
           /\ (i = 0 \/ i \notin DOMAIN table) =>
                 req'[r].pc = "done" /\ ~req'[r].ok
           /\ (i \in DOMAIN table /\ ~table[i].is_used) =>
                 req'[r].pc = "mark" /\ req'[r].id = i

\* the write of invalidate_code_by_id of request r happens in this step
ByIdWrites(r) ==
    /\ req[r].pc = "mark"
    /\ req[r].kind = "by_id"
    /\ req'[r].pc = "done"

\* invalidate_code, by plaintext, refuses the code of an expired row
PlaintextRefusesExpired(r) ==
    \A i \in DOMAIN table :
        (req[r].pc = "idle" /\ req'[r].kind = "invalidate"
           /\ is_expired(table[i], now)
           /\ Invalidate(r, table[i].code.plain, table[i].type)) =>
              req'[r].pc = "done" /\ ~req'[r].ok /\ table' = table

\* C36 as stated: invalidate_code_by_id returns False and changes nothing
\* when the id is empty or has no row; for a row that exists unused it
\* marks the row used and returns True whether or not the row is expired,
\* where invalidate_code refuses an expired code
ByIdMarksUnusedRow ==
    [][ \A r \in Requests :
          /\ ByIdLookupDecides(r)
          /\ PlaintextRefusesExpired(r)
          /\ ByIdWrites(r) => req'[r].ok /\ OnlyMarks(req[r].id) ]_vars

\* C36 amended: invalidate_code_by_id returns False and changes nothing
\* when the id is empty or has no row; for a row that exists unused at its
\* lookup, expired or not, it returns True and marks the row used if the
\* row is still in the table at its write, and returns False with nothing
\* changed if a sweep removed the row in between; invalidate_code refuses
\* an expired code
ByIdTrueIffRowAtWrite ==
    [][ \A r \in Requests :
          /\ ByIdLookupDecides(r)
          /\ PlaintextRefusesExpired(r)
          /\ ByIdWrites(r) =>
                /\ req'[r].ok <=> req[r].id \in DOMAIN table
                /\ req'[r].ok => OnlyMarks(req[r].id)
                /\ ~req'[r].ok => table' = table ]_vars

\* invalidate_code_by_id has returned True for a row it marked used after
\* the row's expiry
ByIdMarkedExpiredRow ==
    \E r \in Requests :
        /\ req[r].pc = "done" /\ req[r].kind = "by_id" /\ req[r].ok
        /\ req[r].id \in DOMAIN table
        /\ table[req[r].id].is_used
        /\ table[req[r].id].used_at > table[req[r].id].expires_at

(* ---------------------- claims: validate reads only ------------------- *)

\* a lookup of request r answers in this step
LookupAnswers(r) ==
    /\ req[r].pc = "idle"
    /\ req'[r].kind \in {"validate", "valid_for_user"}

\* C37: a call of validate_code or is_code_valid_for_user, whatever it
\* returns or raises, leaves every row as it was; what validate_code returns
\* is the row of the table; and a code that validates keeps validating to
\* the same record in every step that neither marks its row used nor passes
\* its expiry
ValidateReadsOnly ==
    [][ /\ \A r \in Redeemers : LookupAnswers(r) =>
              /\ table' = table
              /\ (req'[r].kind = "validate" /\ req'[r].ok) =>
                    /\ req'[r].id \in DOMAIN table
                    /\ table[req'[r].id].code = req'[r].hashed
                    /\ table[req'[r].id].user_id = req'[r].user
                    /\ table[req'[r].id].expires_at = req'[r].expires_at
                    /\ table[req'[r].id].created_at = req'[r].created_at
                    /\ req'[r].id =
                          validate_code(table', now', req'[r].code, req'[r].type).id
        /\ \A c \in RowCodes, t \in AuthCodeType :
              LET auth_code == validate_code(table, now, c, t)
              IN  auth_code # NoAuthCode =>
                     \/ validate_code(table', now', c, t) = auth_code
                     \/ /\ auth_code.id \in DOMAIN table'
                        /\ table'[auth_code.id].is_used
                     \/ now' > auth_code.expires_at ]_vars

\* validate_code has returned a row a clock tick after the row was
\* generated, and the row is still unused and validates to itself
ValidatedTwiceStillValid ==
    \E r \in Redeemers :
        /\ req[r].pc = "done" /\ req[r].kind = "validate" /\ req[r].ok
        /\ req[r].id \in DOMAIN table
        /\ ~table[req[r].id].is_used
        /\ validate_code(table, now, req[r].code, req[r].type) = table[req[r].id]
        /\ now > table[req[r].id].created_at

(* ------------------------- claims: the two types ---------------------- *)

\* the rows whose code is the plaintext c and whose type is not t
OfOtherType(c, t) ==
    {i \in DOMAIN table : table[i].code.plain = c /\ table[i].type # t}

\* C38: validate_code called with the other type than the one a code was
\* generated for returns None, is_code_valid_for_user False, and
\* invalidate_code False without a write; a row that validate_code returns
\* or invalidate_code marks has the type of the call; and such a call
\* leaves the row as valid as it was
TypesIsolated ==
    [][ \A r \in Redeemers :
          /\ LookupAnswers(r) =>
                /\ OfOtherType(req'[r].code, req'[r].type) # {} =>
                      ~req'[r].ok /\ req'[r].id = 0
                /\ req'[r].ok => table[req'[r].id].type = req'[r].type
                /\ \A i \in DOMAIN table :
                      i \in DOMAIN table' /\ table'[i] = table[i]
                        /\ is_valid(table'[i], now') = is_valid(table[i], now)
          /\ \A c \in RowCodes, t \in AuthCodeType :
                (req[r].pc = "idle" /\ req'[r].kind = "invalidate"
                   /\ Invalidate(r, c, t)) =>
                   /\ table' = table /\ now' = now
                   /\ OfOtherType(c, t) # {} =>
                         req'[r].pc = "done" /\ ~req'[r].ok
                   /\ req'[r].pc = "mark" => table[req'[r].id].type = t
          /\ (req[r].pc = "mark" /\ req[r].kind = "invalidate"
                /\ req'[r].pc = "done") =>
                \A i \in DOMAIN table :
                    table[i].type # req[r].type => table'[i] = table[i] ]_vars

\* validate_code has returned None for the code of a valid row and the
\* other type, a clock tick after the row was generated
OtherTypeRefusedWhileValid ==
    \E r \in Redeemers :
        /\ req[r].pc = "done" /\ req[r].kind = "validate" /\ ~req[r].ok
        /\ req[r].type \in AuthCodeType
        /\ \E i \in OfOtherType(req[r].code, req[r].type) :
              /\ is_valid(table[i], now)
              /\ now > table[i].created_at
              /\ validate_code(table, now, req[r].code, table[i].type) = table[i]
====
